---- MODULE Spec2Model ----
(***************************************************************************)
(* RasPG framework core: entity registry, component composition,          *)
(* serialization, template registry and event bus, modelled from          *)
(* src/unnamed/part_005.                                                   *)
(*                                                                         *)
(* Heap objects are modelled by index: objs[h] is a GameObject,           *)
(* insts[i] is a Component instance.  Javascript Maps/Sets/plain objects  *)
(* keep insertion order, so they are modelled as sequences of <<key,      *)
(* value>> pairs (OMap) or duplicate-free sequences.  Instances that are  *)
(* created and then dropped without ever being stored are not allocated.  *)
(***************************************************************************)
EXTENDS Integers, Sequences, FiniteSets, TLC

\* ---------------------------------------------------------------- bounds
MaxObjects == 3
MaxInstances == 2
MaxDepth == 2

\* ------------------------------------------------------ ordered map helpers
\* F applied to the value of x: a call receives its argument evaluated
With(x, F(_)) == CHOOSE r \in {F(v) : v \in {x}} : TRUE

Range(s) == {s[i] : i \in 1..Len(s)}

RECURSIVE SeqRemove(_, _)
SeqRemove(s, x) ==
  IF s = <<>> THEN <<>>
  ELSE IF Head(s) = x THEN SeqRemove(Tail(s), x)
  ELSE <<Head(s)>> \o SeqRemove(Tail(s), x)

OKeys(m) == {m[i][1] : i \in 1..Len(m)}
OHas(m, k) == k \in OKeys(m)
OGet(m, k) == (CHOOSE i \in 1..Len(m) : m[i][1] = k)
ODelete(m, k) == SelectSeq(m, LAMBDA e : e[1] # k)
OSet(m, k, v) ==
  IF OHas(m, k) THEN [i \in 1..Len(m) |-> IF m[i][1] = k THEN <<k, v>> ELSE m[i]]
  ELSE Append(m, <<k, v>>)
OVal(m, k) == m[OGet(m, k)][2]
OPos(m, k) == OGet(m, k)

\* ------------------------------------------------------------ identities
\* An id is a base name followed by its '__i<n>' suffixes: 'rock__i0' is
\* <<"rock", 0>>.
Mangle(id, n) == Append(id, n)
\* \d+
IsIntSuffix(x) == x \in Nat
\* String.replace(/__i\d+$/, '')
StripInstance(id) ==
  IF Len(id) > 1 /\ IsIntSuffix(id[Len(id)]) THEN SubSeq(id, 1, Len(id) - 1) ELSE id

\* ------------------------------------------------------- component types
\* static requires = [...]
Requires(T) ==
  CASE T = "Perceptible" -> <<"Stringful">>
    [] T = "Actionable"  -> <<"Tangible">>
    [] T = "Combatant"   -> <<"Actionable", "Agentive", "Statful">>
    [] OTHER             -> <<>>

\* static reference = '...'
Reference(T) ==
  CASE T = "Stateful"    -> "_states"
    [] T = "Stringful"   -> "_strings"
    [] T = "Perceptible" -> "_perceptions"
    [] T = "Tangible"    -> "_location"
    [] T = "Containing"  -> "_container"
    [] T = "Actionable"  -> "_actions"
    [] T = "Agentive"    -> "_acts"
    [] T = "Statful"     -> "_stats"
    [] OTHER             -> "_combat"

\* component types that define static serializer and static deserializer
HasSerialization(T) ==
  T \in {"Stateful", "Stringful", "Perceptible", "Tangible", "Actionable", "Agentive"}

\* RasPG.runtime.components: registered name -> class.  Statful and Combatant
\* belong to the Stats&Combat extension, whose register() is never called;
\* RasPG.registerComponent('Agentive', Agentive) passes a string where the
\* class is validated, throws, and registers nothing.
RuntimeComponents ==
  [n \in {"Stateful", "Stringful", "Perceptible", "Tangible", "Actionable"} |-> n]

\* RasPG.runtime.components, as a function name -> class
VARIABLE components

\* Component.resolve(component): a class, a registered name or an instance
\* resolves to the class.  An argument is <<form, T>>.
\* The result is the class, or "NotComponent" where resolve throws.
ArgForms == {"class", "name", "instance"}
ComponentResolve(arg) ==
  CASE arg[1] = "class"    -> arg[2]
    [] arg[1] = "name"     -> IF arg[2] \in DOMAIN components
                              THEN components[arg[2]] ELSE "NotComponent"
    [] OTHER               -> arg[2]

\* new T(): a detached instance with empty private state
NewInstance(T) == [type |-> T, data |-> <<>>, parent |-> 0]

\* ----------------------------------------------------------- the runtime
VARIABLES
  objs,       \* heap of GameObject instances (registered or not)
  insts,      \* heap of Component instances
  all,        \* GameObject._all, as a set of <<id, handle>> entries
  templates,  \* TemplateModule.#all, as an OMap name -> record
  inner,      \* RasPG.runtime.state.inner (valueStack, top first)
  listeners,  \* EventModule.#listeners, as an OMap pattern -> set of listeners
  hooks,      \* HookModule.#hooks, as an OMap hook -> set of callbacks
  context,    \* ContextModule.#context, as an OMap label -> stack (top first)
  gatherers,  \* ContextModule.#gatherers, as an OMap name -> gatherer
  frames,     \* the instantiate calls in progress, innermost first
  subtext,    \* SubTextModule.#conditionals, #substitutions and the parse call in progress
  statics,    \* Actionable.#allActions / #disabledActions, Agentive.#allActs / #disabledActs
  ret,        \* outcome of the last call
  hist        \* ghost: what each call was given and what it issued

vars == <<objs, insts, all, templates, inner, listeners, hooks, context, gatherers,
          components, frames, statics, subtext, ret, hist>>

\* valueStack.get(): stack.at(0) || undefined
InnerGet(stack) == IF stack = <<>> THEN "undefined" ELSE stack[1]
\* valueStack.push / pop: unshift / shift
InnerPush(stack, v) == <<v>> \o stack
InnerPop(stack) == IF stack = <<>> THEN <<>> ELSE Tail(stack)

\* Map.has / Map.set on GameObject._all
\* (variant: the constructor never finds the id taken)
AllHasNever(a, id) == FALSE
AllHas(a, id) == \E e \in a : e[1] = id
AllSet(a, id, h) == {e \in a : e[1] # id} \cup {<<id, h>>}

\* A world is the part of the heap that the composition code touches.
World(o, i, a) == [objs |-> o, insts |-> i, all |-> a]

\* GameObject.prototype.hasComponent
HasComponent(w, h, T) == OHas(w.objs[h].comps, T)

\* GameObject.prototype.tag: Set.add keeps the first insertion
\* (variant: tag() stores nothing)
TagNothing(w, h, t) == w
TagW(w, h, t) ==
  IF t \in Range(w.objs[h].tags) THEN w
  ELSE [w EXCEPT !.objs[h].tags = Append(@, t)]

\* this._components.set(name, instance); instance.parent = this;
\* this[reference] = instance
\* (variant: one instance per component type, shared by every object)
StoreShared(w, h, inst) ==
  IF \E j \in 1..Len(w.insts) : w.insts[j].type = inst.type
  THEN With(CHOOSE j \in 1..Len(w.insts) :
                   /\ w.insts[j].type = inst.type
                   /\ \A i \in 1..(j - 1) : w.insts[i].type # inst.type,
            LAMBDA idx :
              [w EXCEPT !.objs[h].comps = OSet(@, inst.type, idx),
                        !.objs[h].acc = OSet(@, Reference(inst.type), idx)])
  ELSE With(Len(w.insts) + 1, LAMBDA idx :
         [w EXCEPT !.insts = Append(@, [inst EXCEPT !.parent = h]),
                   !.objs[h].comps = OSet(@, inst.type, idx),
                   !.objs[h].acc = OSet(@, Reference(inst.type), idx)])
StoreW(w, h, inst) ==
  With(Len(w.insts) + 1, LAMBDA idx :
    [w EXCEPT !.insts = Append(@, [inst EXCEPT !.parent = h]),
              !.objs[h].comps = OSet(@, inst.type, idx),
              !.objs[h].acc = OSet(@, Reference(inst.type), idx)])

\* if (inner.get() === 'instantiating') this._components.delete(name)
\* (variant: the present component is dropped in every runtime state)
ReplaceAlways(w, h, T, st) == [w EXCEPT !.objs[h].comps = ODelete(@, T)]
ReplaceW(w, h, T, st) ==
  IF st = "instantiating" THEN [w EXCEPT !.objs[h].comps = ODelete(@, T)] ELSE w

\* GameObject.prototype.addComponent, `inst` being the instance that the
\* argument resolved to.  Result: [w, ret].
RECURSIVE AddComponentW(_, _, _, _)
RECURSIVE AddRequirementsW(_, _, _, _)
\* (variant: the requirements are not attached)
AddRequirementsNone(w, h, reqs, st) == w
AddComponentW(w, h, inst, st) ==
  With(ReplaceW(w, h, inst.type, st), LAMBDA w1 :
    IF HasComponent(w1, h, inst.type)
    THEN [w |-> w1, ret |-> FALSE]
    ELSE With(AddRequirementsW(w1, h, Requires(inst.type), st), LAMBDA w2 :
           [w |-> StoreW(w2, h, inst), ret |-> TRUE]))

AddRequirementsW(w, h, reqs, st) ==
  IF reqs = <<>> THEN w
  ELSE With(AddComponentW(w, h, NewInstance(Head(reqs)), st).w, LAMBDA w1 :
         AddRequirementsW(w1, h, Tail(reqs), st))

\* GameObject.prototype.addComponents(...components).  Result: [w, thrown].
RECURSIVE AddComponentsW(_, _, _, _)
AddComponentsW(w, h, args, st) ==
  IF args = <<>> THEN [w |-> w, thrown |-> "none"]
  ELSE IF ComponentResolve(Head(args)) = "NotComponent"
  THEN [w |-> w, thrown |-> "NotComponent"]
  ELSE With(AddComponentW(w, h, NewInstance(ComponentResolve(Head(args))), st).w,
            LAMBDA w1 : AddComponentsW(w1, h, Tail(args), st))

RECURSIVE TagAllW(_, _, _)
TagAllW(w, h, ts) ==
  IF ts = <<>> THEN w ELSE TagAllW(TagW(w, h, Head(ts)), h, Tail(ts))

\* new GameObject(id, {tags, components, register}).
\* Result: [w, thrown, h].  An object whose constructor throws is never seen.
ConstructW(w, id, tags, args, register, st) ==
  IF AllHas(w.all, id)
  THEN [w |-> w, thrown |-> "ObjectIDConflict", h |-> 0]
  ELSE LET h  == Len(w.objs) + 1
           w0 == [w EXCEPT !.objs = Append(@, [id |-> id, tags |-> <<>>,
                                               comps |-> <<>>, acc |-> <<>>])]
       IN With(AddComponentsW(TagAllW(w0, h, tags), h, args, st), LAMBDA a :
            IF a.thrown # "none"
            THEN [w |-> w, thrown |-> a.thrown, h |-> 0]
            ELSE [w |-> IF register THEN [a.w EXCEPT !.all = AllSet(@, id, h)] ELSE a.w,
                  thrown |-> "none", h |-> h])

\* ---------------------------------------------------------- serialization
\* A serialized component entry is [kind, inst, val]:
\*   kind "val":   a freshly built plain value `val`
\*   kind "ref":   the very object held in insts[inst].data (no copy was made)
\*   kind "false": the value false that the missing-serializer log returns
ValEntry(v) == [kind |-> "val", inst |-> 0, val |-> v]
RefEntry(i) == [kind |-> "ref", inst |-> i, val |-> <<>>]
FalseEntry == [kind |-> "false", inst |-> 0, val |-> <<>>]

\* what a reader of the entry sees
EntryData(is, e) == IF e.kind = "ref" THEN is[e.inst].data ELSE e.val

\* RasPG.config
Locale == "en"
AvailableLocales == {"en"}
\* Stringful.prototype.set: keys are sequences of dot-separated segments
ActualKey(key) == IF key[1] \in AvailableLocales THEN key ELSE <<Locale>> \o key

\* Perceptible.serializer with serializeFunctions = false
SkipFunctions(m) ==
  [i \in 1..Len(m) |-> IF m[i][2] = "fn" THEN <<m[i][1], "SKIP">> ELSE m[i]]

\* Component.prototype.serialize for instance i.  Result: [entry, thrown].
ComponentSerialize(is, i, st) ==
  LET T == is[i].type IN
  CASE ~HasSerialization(T) -> [entry |-> FalseEntry, thrown |-> "none"]
    [] T = "Stateful" ->
         \* get data(): the private object itself while serializing, else a clone
         [entry |-> IF st = "serializing" THEN RefEntry(i) ELSE ValEntry(is[i].data),
          thrown |-> "none"]
    [] T = "Stringful" -> [entry |-> ValEntry(is[i].data), thrown |-> "none"]
    [] T = "Perceptible" ->
         [entry |-> ValEntry(SkipFunctions(is[i].data)), thrown |-> "none"]
    [] T = "Tangible" ->
         \* get location(): #location (never assigned here) while serializing,
         \* else GameObject.resolve(undefined), which throws
         [entry |-> ValEntry(<<>>),
          thrown |-> IF st = "serializing" THEN "none" ELSE "NotGameObject"]
    [] OTHER -> [entry |-> ValEntry(<<>>), thrown |-> "none"]

\* the loop of GameObject.serializer over object._components
RECURSIVE SerializeComponents(_, _, _, _)
SerializeComponents(is, comps, st, done) ==
  IF comps = <<>> THEN [components |-> done, thrown |-> "none"]
  ELSE LET r == ComponentSerialize(is, Head(comps)[2], st)
       IN IF r.thrown # "none"
          THEN [components |-> done, thrown |-> r.thrown]
          ELSE SerializeComponents(is, Tail(comps), st,
                                   Append(done, <<Head(comps)[1], r.entry>>))

\* GameObject.serializer.  Result: [data, thrown].
GameObjectSerializer(w, h, st) ==
  LET res == SerializeComponents(w.insts, w.objs[h].comps, st, <<>>)
  IN [data |-> [class |-> "GameObject", id |-> w.objs[h].id, tags |-> w.objs[h].tags,
                components |-> res.components],
      thrown |-> res.thrown]

\* a serialized entity as a plain value (what structural equality compares)
Plain(is, data) ==
  [class |-> data.class, id |-> data.id, tags |-> data.tags,
   components |-> [k \in 1..Len(data.components) |->
                     <<data.components[k][1],
                       [kind |-> IF data.components[k][2].kind = "false" THEN "false" ELSE "val",
                        val  |-> EntryData(is, data.components[k][2])]>>]]

\* Stringful.deserializer: set() every pair whose value is not 'SKIP'
RECURSIVE StringfulLoad(_, _)
StringfulLoad(m, pairs) ==
  IF pairs = <<>> THEN m
  ELSE StringfulLoad(IF Head(pairs)[2] = "SKIP" THEN m
                     ELSE OSet(m, ActualKey(Head(pairs)[1]), Head(pairs)[2]),
                     Tail(pairs))

\* Stateful.deserializer: define() creates every variable not yet present
RECURSIVE StatefulDefine(_, _)
StatefulDefine(m, pairs) ==
  IF pairs = <<>> THEN m
  ELSE StatefulDefine(IF OHas(m, Head(pairs)[1]) THEN m
                      ELSE Append(m, Head(pairs)),
                      Tail(pairs))

\* Perceptible.deserializer deletes the 'SKIP' entries from the data it is given
DropSkips(m) == SelectSeq(m, LAMBDA e : e[2] # "SKIP")

\* <Component>.deserializer(entry).  Result: [inst, entry, thrown] where
\* entry is the argument as the call leaves it.
ComponentDeserializer(is, T, e) ==
  CASE ~HasSerialization(T) ->
         \* component.deserializer is undefined
         [inst |-> NewInstance(T), entry |-> e, thrown |-> "TypeError"]
    [] T = "Stateful" ->
         [inst |-> [NewInstance(T) EXCEPT !.data = StatefulDefine(<<>>, EntryData(is, e))],
          entry |-> e, thrown |-> "none"]
    [] T = "Stringful" ->
         [inst |-> [NewInstance(T) EXCEPT !.data = StringfulLoad(<<>>, EntryData(is, e))],
          entry |-> e, thrown |-> "none"]
    [] T = "Perceptible" ->
         \* definePerceptions runs at once on the detached instance;
         \* setPerception reads this.parent._strings with parent undefined
         LET kept == DropSkips(EntryData(is, e))
         IN [inst |-> NewInstance(T), entry |-> ValEntry(kept),
             thrown |-> IF kept = <<>> THEN "none" ELSE "TypeError"]
    [] T = "Tangible" ->
         \* moveTo(undefined): GameObject.resolve throws
         [inst |-> NewInstance(T), entry |-> e, thrown |-> "NotGameObject"]
    [] OTHER -> [inst |-> NewInstance(T), entry |-> e, thrown |-> "none"]

\* ghost: one addComponent(component) call as its caller saw it
Attach(w, h, inst, st, r) ==
  [called |-> TRUE, h |-> h, T |-> inst.type, st |-> st,
   present |-> OHas(w.objs[h].comps, inst.type),
   returned |-> r.ret,
   same |-> (r.w.objs[h] = w.objs[h] /\ r.w.insts = w.insts)]
NoAttach ==
  [called |-> FALSE, h |-> 0, T |-> "", st |-> "", present |-> FALSE,
   returned |-> FALSE, same |-> TRUE]

\* the loop of GameObject.deserializer over data.components, from entry k on;
\* acc is [w, data, thrown, attach]
RECURSIVE DeserializeComponents(_, _, _, _)
DeserializeComponents(acc, h, k, st) ==
  IF k > Len(acc.data.components) THEN acc
  ELSE IF acc.data.components[k][1] \notin DOMAIN components
  THEN [acc EXCEPT !.thrown = "DeserializerMissingComponent"]
  ELSE With(ComponentDeserializer(acc.w.insts,
                                  components[acc.data.components[k][1]],
                                  acc.data.components[k][2]), LAMBDA d :
       With([acc.data EXCEPT !.components[k][2] = d.entry], LAMBDA nd :
         IF d.thrown # "none"
         THEN [acc EXCEPT !.data = nd, !.thrown = d.thrown]
         ELSE With(AddComponentW(acc.w, h, d.inst, st), LAMBDA r :
                With([w |-> r.w, data |-> nd, thrown |-> "none",
                      attach |-> Attach(acc.w, h, d.inst, st, r)], LAMBDA next :
                  DeserializeComponents(next, h, k + 1, st)))))

\* GameObject.deserializer(data).  Result: [w, data, thrown, h, attach]; data
\* is the argument as the call leaves it, attach the last
\* object.addComponent(instance) call of the loop.
GameObjectDeserializer(w, data, st) ==
  With(ConstructW(w, data.id, data.tags,
                  [k \in 1..Len(data.components) |-> <<"name", data.components[k][1]>>],
                  TRUE, st), LAMBDA c :
    With(IF c.thrown # "none"
         THEN [w |-> c.w, data |-> data, thrown |-> c.thrown, attach |-> NoAttach]
         ELSE DeserializeComponents(
                [w |-> c.w, data |-> data, thrown |-> "none", attach |-> NoAttach],
                c.h, 1, st), LAMBDA res :
      [w |-> res.w, data |-> res.data, thrown |-> res.thrown, h |-> c.h,
       attach |-> res.attach]))

\* ----------------------------------------------------------------- hooks
\* The steps of one call, in order: each HookModule.run(hook, ...) by its
\* hook name, each change of the object's state as "write".  No callback is
\* ever held by #hooks (see HookAttach), so a run changes nothing.
BeforeHook(op) == "before:GameObject.instance." \o op
AfterHook(op) == "after:GameObject.instance." \o op

\* GameObject.prototype.tag
\* (variant: the after: hook also runs on the early return)
TagTraceAlways(w, h, t) ==
  <<BeforeHook("tag")>>
  \o (IF t \in Range(w.objs[h].tags) THEN <<>> ELSE <<"write">>)
  \o <<AfterHook("tag")>>
TagTrace(w, h, t) ==
  <<BeforeHook("tag")>>
  \o (IF t \in Range(w.objs[h].tags) THEN <<>> ELSE <<"write", AfterHook("tag")>>)

\* GameObject.prototype.untag
UntagTrace(w, h, t) ==
  <<BeforeHook("untag")>>
  \o (IF t \notin Range(w.objs[h].tags) THEN <<>> ELSE <<"write", AfterHook("untag")>>)

\* GameObject.prototype.addComponent, the calls it makes on itself for the
\* requirements included
RECURSIVE AddComponentTrace(_, _, _, _)
RECURSIVE AddRequirementsTrace(_, _, _, _)
AddComponentTrace(w, h, inst, st) ==
  <<BeforeHook("addComponent")>>
  \o (IF st = "instantiating" /\ OHas(w.objs[h].comps, inst.type)
      THEN <<"write">> ELSE <<>>)
  \o With(ReplaceW(w, h, inst.type, st), LAMBDA w1 :
        IF OHas(w1.objs[h].comps, inst.type) THEN <<>>
        ELSE AddRequirementsTrace(w1, h, Requires(inst.type), st)
             \o <<"write", AfterHook("addComponent")>>)
AddRequirementsTrace(w, h, reqs, st) ==
  IF reqs = <<>> THEN <<>>
  ELSE AddComponentTrace(w, h, NewInstance(Head(reqs)), st)
       \o With(AddComponentW(w, h, NewInstance(Head(reqs)), st).w, LAMBDA w1 :
            AddRequirementsTrace(w1, h, Tail(reqs), st))

\* ------------------------------------------------------------ the inputs
UserIds == {<<"rock">>, <<"rock", 0>>}
TagInputs == {"HEAVY"}
TemplateNames == {"rock", "gem"}
StateVariables == {"hp"}
StateValues == {1, 2}
StringKeys == {<<"name">>, <<"en", "name">>}
StringValues == {"x"}
PerceptionContexts == {"direct"}
PerceptionValues == {"str", "fn"}
\* 'TEMPLATE:' + name
ProvenanceTag(name) == "TEMPLATE:" \o name

Classes(names) == [k \in 1..Len(names) |-> <<"class", names[k]>>]

Ret(op, out, h, src, name, T, id) ==
  [op |-> op, out |-> out, h |-> h, src |-> src, name |-> name, T |-> T, id |-> id,
   attach |-> NoAttach, event |-> <<>>, invoked |-> <<>>,
   callback |-> "", owner |-> "", once |-> FALSE, count |-> 0,
   trace |-> <<>>, emitted |-> <<>>, labels |-> <<>>, value |-> "",
   seed |-> "", skip |-> <<>>, ran |-> <<>>, before |-> <<>>, found |-> {}]

Init ==
  /\ objs = <<>>
  /\ insts = <<>>
  /\ all = {}
  /\ templates = <<>>
  /\ inner = <<"initializing">>
  /\ listeners = <<>>
  /\ hooks = <<>>
  /\ context = <<>>
  /\ gatherers = <<>>
  /\ components = RuntimeComponents
  /\ frames = <<>>
  /\ subtext = [conditionals |-> <<>>, substitutions |-> <<>>, pc |-> "idle", string |-> <<>>,
                turns |-> 0]
  /\ statics = [k \in {"Actionable", "Agentive"} |-> [all |-> {}, disabled |-> {}]]
  /\ ret = Ret("init", "none", 0, 0, "", "", <<>>)
  /\ hist = [snap0 |-> <<>>, issued |-> <<>>, listened |-> {}, attached |-> {}]

Here == World(objs, insts, all)

\* Component instances that nothing refers to any more (a default instance
\* that addComponent replaced, say) are dropped from the heap and the
\* remaining ones renumbered in order: heap addresses are not observable.
Reachable(w, tpl) ==
  UNION {{w.objs[h].comps[k][2] : k \in 1..Len(w.objs[h].comps)}
           \cup {w.objs[h].acc[k][2] : k \in 1..Len(w.objs[h].acc)} :
         h \in 1..Len(w.objs)}
  \cup UNION {{tpl[n][2].serialized.components[k][2].inst :
                 k \in {j \in 1..Len(tpl[n][2].serialized.components) :
                          tpl[n][2].serialized.components[j][2].kind = "ref"}} :
              n \in 1..Len(tpl)}
Renumber(R, i) == Cardinality({j \in R : j <= i})
Moved(R, m) == [k \in 1..Len(m) |-> <<m[k][1], Renumber(R, m[k][2])>>]
CollectR(w, tpl, R) ==
  [objs |-> [h \in 1..Len(w.objs) |->
               [w.objs[h] EXCEPT !.comps = Moved(R, @), !.acc = Moved(R, @)]],
   insts |-> [k \in 1..Cardinality(R) |->
                w.insts[CHOOSE j \in R : Renumber(R, j) = k]],
   all |-> w.all,
   templates |->
     [n \in 1..Len(tpl) |->
        <<tpl[n][1],
          [tpl[n][2] EXCEPT !.serialized.components =
             [k \in 1..Len(@) |->
                <<@[k][1],
                  IF @[k][2].kind = "ref"
                  THEN [@[k][2] EXCEPT !.inst = Renumber(R, @)]
                  ELSE @[k][2]>>]]>>]]
Collect(w, tpl) == With(Reachable(w, tpl), LAMBDA R : CollectR(w, tpl, R))

Commit(w, tpl) ==
  \E c \in {Collect(w, tpl)} :
     /\ objs' = c.objs
     /\ insts' = c.insts
     /\ all' = c.all
     /\ templates' = c.templates

\* new GameObject(id, {tags, components, register})
Construct(id, tags, comps, register) ==
  /\ Len(objs) < MaxObjects
  /\ \E c \in {ConstructW(Here, id, tags, Classes(comps), register, InnerGet(inner))} :
        /\ Commit(c.w, templates)
        /\ ret' = Ret("construct", IF c.thrown = "none" THEN "instance" ELSE c.thrown,
                      c.h, 0, "", "", id)
  /\ UNCHANGED <<inner, listeners, hooks, context, gatherers, components, frames, statics, subtext, hist>>

\* object.addComponent(component)
AddComponent(h, arg) ==
  /\ h \in 1..Len(objs)
  /\ LET T == ComponentResolve(arg)
         st == InnerGet(inner)
     IN IF T = "NotComponent"
        THEN /\ ret' = [Ret("addComponent", "NotComponent", h, 0, "", arg[2], <<>>)
                          EXCEPT !.trace = <<BeforeHook("addComponent")>>]
             /\ UNCHANGED <<objs, insts, all, templates>>
        ELSE \E r \in {AddComponentW(Here, h, NewInstance(T), st)} :
                /\ Commit(r.w, templates)
                /\ ret' = [Ret("addComponent", IF r.ret THEN "true" ELSE "false",
                               h, 0, "", T, <<>>)
                             EXCEPT !.attach = Attach(Here, h, NewInstance(T), st, r),
                                    !.trace = AddComponentTrace(Here, h, NewInstance(T), st)]
  /\ UNCHANGED <<inner, listeners, hooks, context, gatherers, components, frames, statics, subtext, hist>>

\* object.addComponent(instance), the argument being a live Component
\* instance: `instance = component`, no new instance is built.
StoreLiveW(w, h, i) ==
  [w EXCEPT !.insts[i].parent = h,
            !.objs[h].comps = OSet(@, w.insts[i].type, i),
            !.objs[h].acc = OSet(@, Reference(w.insts[i].type), i)]
AddLiveW(w, h, i, st) ==
  With(ReplaceW(w, h, w.insts[i].type, st), LAMBDA w1 :
    IF HasComponent(w1, h, w.insts[i].type)
    THEN [w |-> w1, ret |-> FALSE]
    ELSE With(AddRequirementsW(w1, h, Requires(w.insts[i].type), st), LAMBDA w2 :
           [w |-> StoreLiveW(w2, h, i), ret |-> TRUE]))
AddComponentLive(h, i) ==
  /\ h \in 1..Len(objs)
  /\ i \in 1..Len(insts)
  /\ \E r \in {AddLiveW(Here, h, i, InnerGet(inner))} :
        /\ Commit(r.w, templates)
        /\ ret' = [Ret("addComponent", IF r.ret THEN "true" ELSE "false",
                       h, i, "", insts[i].type, <<>>) EXCEPT !.value = "live"]
  /\ UNCHANGED <<inner, listeners, hooks, context, gatherers, components, frames, statics, subtext, hist>>

\* Component subclasses declared by a game.  `static requires` is an ordinary
\* static field, so two subclasses can name each other in it.
CycleTypes == {"Ping", "Pong"}
RequiresOf(T) ==
  CASE T = "Ping" -> <<"Pong">>
    [] T = "Pong" -> <<"Ping">>
    [] OTHER      -> Requires(T)

\* The engine's call stack holds a bounded number of addComponent frames; a
\* call beyond it throws RangeError, which no frame of addComponent catches.
CallStackLimit == 6

\* GameObject.prototype.addComponent with its recursion depth made explicit.
\* Result: [w, ret, thrown].
RECURSIVE AddComponentDepth(_, _, _, _, _)
RECURSIVE AddRequirementsDepth(_, _, _, _, _)
AddComponentDepth(w, h, T, st, depth) ==
  IF depth > CallStackLimit
  THEN [w |-> w, ret |-> FALSE, thrown |-> "RangeError"]
  ELSE With(ReplaceW(w, h, T, st), LAMBDA w1 :
         IF HasComponent(w1, h, T)
         THEN [w |-> w1, ret |-> FALSE, thrown |-> "none"]
         ELSE With(AddRequirementsDepth(w1, h, RequiresOf(T), st, depth + 1), LAMBDA r :
                IF r.thrown # "none"
                THEN [w |-> r.w, ret |-> FALSE, thrown |-> r.thrown]
                ELSE [w |-> StoreW(r.w, h, NewInstance(T)), ret |-> TRUE,
                      thrown |-> "none"]))
AddRequirementsDepth(w, h, reqs, st, depth) ==
  IF reqs = <<>> THEN [w |-> w, ret |-> TRUE, thrown |-> "none"]
  ELSE With(AddComponentDepth(w, h, Head(reqs), st, depth), LAMBDA r :
         IF r.thrown # "none" THEN r
         ELSE AddRequirementsDepth(r.w, h, Tail(reqs), st, depth))

\* object.addComponent(Class), Class possibly one of the game's subclasses
AddComponentDeclared(h, T) ==
  /\ h \in 1..Len(objs)
  /\ \E r \in {AddComponentDepth(Here, h, T, InnerGet(inner), 1)} :
        /\ Commit(r.w, templates)
        /\ ret' = [Ret("addComponent",
                       IF r.thrown # "none" THEN r.thrown
                       ELSE IF r.ret THEN "true" ELSE "false",
                       h, 0, "", T, <<>>) EXCEPT !.value = "declared"]
  /\ UNCHANGED <<inner, listeners, hooks, context, gatherers, components, frames, statics, subtext, hist>>

\* RegistryBase.getByID(id): the stored value, or 0 for null
GetByID(a, id) == IF AllHas(a, id) THEN (CHOOSE e \in a : e[1] = id)[2] ELSE 0

\* ------------------------------------------------------------ containment
\* Tangible.#location in the instance's data: no entry while it is undefined,
\* <<>> for null, else the id of the location.
\* Containing.#contents and #filter in the instance's data.
TangibleOf(w, h) == OVal(w.objs[h].comps, "Tangible")
ContainingOf(w, h) == OVal(w.objs[h].comps, "Containing")
LocationDefined(w, i) == OHas(w.insts[i].data, "location")
LocationField(w, i) == OVal(w.insts[i].data, "location")
ContentsField(w, i) ==
  IF OHas(w.insts[i].data, "contents") THEN OVal(w.insts[i].data, "contents") ELSE <<>>
FilterField(w, i) ==
  IF OHas(w.insts[i].data, "filter") THEN OVal(w.insts[i].data, "filter") ELSE "undefined"

\* the predicates given to setFilter: () => false and () => true
Filters == {"nothing", "anything"}
FilterAccepts(f, w, x) == f = "anything"

\* Outcome of a containment call: the world it leaves, what it returned and
\* what it threw.
Done(w, out) == [w |-> w, out |-> out, thrown |-> "none"]
Threw(w, e) == [w |-> w, out |-> "undefined", thrown |-> e]

\* Containing.prototype.has(object), object a GameObject
ContainingHas(w, c, x) ==
  IF ~HasComponent(w, x, "Tangible") THEN FALSE
  ELSE w.objs[x].id \in Range(ContentsField(w, ContainingOf(w, c)))

\* Tangible.prototype.moveTo(location, false): the form Containing.add calls
MoveToQuiet(w, x, c) ==
  IF ~HasComponent(w, c, "Containing") THEN Done(w, "false")
  ELSE Done([w EXCEPT !.insts[TangibleOf(w, x)].data = OSet(@, "location", w.objs[c].id)],
            "true")

\* Tangible.prototype.removeFromWorld(false): the form Containing.remove calls
RemoveFromWorldQuiet(w, x) ==
  Done([w EXCEPT !.insts[TangibleOf(w, x)].data = OSet(@, "location", <<>>)],
       "undefined")

\* Containing.prototype.add(object, options), object a GameObject, in the
\* container component of entity c
ContainingAdd(w, c, x, ignoreFilter, passOn, st) ==
  IF st = "templating" THEN Threw(w, "TypeError")
  ELSE IF ~HasComponent(w, x, "Tangible") THEN Done(w, "false")
  ELSE IF w.objs[x].id \in Range(ContentsField(w, ContainingOf(w, c))) THEN Done(w, "this")
  ELSE IF /\ ~ignoreFilter
          /\ FilterField(w, ContainingOf(w, c)) # "undefined"
          /\ ~FilterAccepts(FilterField(w, ContainingOf(w, c)), w, x)
  THEN Done(w, "this")
  ELSE With(IF passOn THEN MoveToQuiet(w, x, c).w ELSE w, LAMBDA w1 :
         Done([w1 EXCEPT !.insts[ContainingOf(w1, c)].data =
                 OSet(@, "contents", Append(ContentsField(w1, ContainingOf(w1, c)),
                                            w1.objs[x].id))],
              "this"))

\* Containing.prototype.remove(object, passOn), object a GameObject
ContainingRemove(w, c, x, passOn) ==
  IF ~HasComponent(w, x, "Tangible") THEN Done(w, "this")
  ELSE IF ~ContainingHas(w, c, x) THEN Done(w, "this")
  ELSE With(IF passOn THEN RemoveFromWorldQuiet(w, x).w ELSE w, LAMBDA w1 :
         Done([w1 EXCEPT !.insts[ContainingOf(w1, c)].data =
                 OSet(@, "contents",
                      SelectSeq(ContentsField(w1, ContainingOf(w1, c)),
                                LAMBDA id : id # w1.objs[x].id))],
              "this"))

\* get location(), outside 'serializing': 0 for null, the entity's handle,
\* or the exception of GameObject.resolve(undefined)
LocationGet(w, x) ==
  IF ~LocationDefined(w, TangibleOf(w, x)) THEN [h |-> 0, thrown |-> "NotGameObject"]
  ELSE IF LocationField(w, TangibleOf(w, x)) = <<>> THEN [h |-> 0, thrown |-> "none"]
  ELSE [h |-> GetByID(w.all, LocationField(w, TangibleOf(w, x))), thrown |-> "none"]

\* tangible.moveTo(location), location a GameObject
MoveToW(w, x, c, st) ==
  IF ~HasComponent(w, c, "Containing") THEN Done(w, "false")
  ELSE
    With(IF ~LocationDefined(w, TangibleOf(w, x)) \/ LocationGet(w, x).h = 0
         THEN Done(w, "this")
         ELSE IF ~HasComponent(w, LocationGet(w, x).h, "Containing")
         THEN Threw(w, "TypeError")
         ELSE ContainingRemove(w, LocationGet(w, x).h, x, FALSE), LAMBDA r :
      IF r.thrown # "none" THEN r
      ELSE With([r.w EXCEPT !.insts[TangibleOf(w, x)].data =
                               OSet(@, "location", w.objs[c].id)], LAMBDA w1 :
             IF LocationGet(w1, x).h = 0 THEN Done(w1, "true")
             ELSE With(ContainingAdd(w1, LocationGet(w1, x).h, x, FALSE, FALSE, st),
                       LAMBDA a : IF a.thrown # "none" THEN a ELSE Done(a.w, "true"))))

\* tangible.removeFromWorld()
RemoveFromWorldW(w, x) ==
  IF LocationGet(w, x).thrown # "none" THEN Threw(w, LocationGet(w, x).thrown)
  ELSE IF LocationGet(w, x).h = 0 THEN Threw(w, "TypeError")
  ELSE IF ~HasComponent(w, LocationGet(w, x).h, "Containing") THEN Threw(w, "TypeError")
  ELSE RemoveFromWorldQuiet(ContainingRemove(w, LocationGet(w, x).h, x, FALSE).w, x)

Contained(op, r, x, c) ==
  /\ Commit(r.w, templates)
  /\ ret' = Ret(op, IF r.thrown # "none" THEN r.thrown ELSE r.out, x, c, "", "", <<>>)
  /\ UNCHANGED <<inner, listeners, hooks, context, gatherers, components, frames, statics, subtext, hist>>

\* x._location.moveTo(c)
MoveTo(x, c) ==
  /\ x \in 1..Len(objs) /\ c \in 1..Len(objs)
  /\ HasComponent(Here, x, "Tangible")
  /\ Contained("moveTo", MoveToW(Here, x, c, InnerGet(inner)), x, c)

\* x._location.removeFromWorld()
RemoveFromWorld(x) ==
  /\ x \in 1..Len(objs)
  /\ HasComponent(Here, x, "Tangible")
  /\ Contained("removeFromWorld", RemoveFromWorldW(Here, x), x, 0)

\* c._container.add(x)
ContainerAdd(c, x) ==
  /\ x \in 1..Len(objs) /\ c \in 1..Len(objs)
  /\ HasComponent(Here, c, "Containing")
  /\ Contained("add", ContainingAdd(Here, c, x, FALSE, TRUE, InnerGet(inner)), x, c)

\* c._container.remove(x)
ContainerRemove(c, x) ==
  /\ x \in 1..Len(objs) /\ c \in 1..Len(objs)
  /\ HasComponent(Here, c, "Containing")
  /\ Contained("remove", ContainingRemove(Here, c, x, TRUE), x, c)

\* c._container.setFilter(predicate)
SetFilter(c, f) ==
  /\ c \in 1..Len(objs)
  /\ HasComponent(Here, c, "Containing")
  /\ Contained("setFilter",
               Done([Here EXCEPT !.insts[ContainingOf(Here, c)].data = OSet(@, "filter", f)],
                    "this"), 0, c)

\* ---------------------------------------------------- actions and acts
\* Actionable and Agentive have the same shape: a static registry of names,
\* a static set of disabled names and a per-instance set of granted names
\* (kept in the instance's data, in insertion order).
\* static get actions() / acts(), outside 'serializing'
EnabledNames(s, kind) == s[kind].all \ s[kind].disabled
\* Actionable.isAction(action, options) / Agentive.isAct(act, options)
IsAction(s, kind, a, enabledOnly) ==
  IF ~enabledOnly THEN a \in s[kind].all ELSE a \in EnabledNames(s, kind)
\* get actions() / acts() of an instance, outside 'serializing'
VisibleActions(w, s, h, kind) ==
  {a \in Range(w.insts[OVal(w.objs[h].comps, kind)].data) : a \notin s[kind].disabled}

Acted(op, out, h, kind, a) ==
  /\ ret' = Ret(op, out, h, 0, a, kind, <<>>)
  /\ UNCHANGED <<all, templates, inner, listeners, hooks, context, gatherers,
                 components, frames, subtext, hist>>

\* Actionable.registerAction(name, {callback}) / Agentive.registerAct
RegisterAction(kind, a) ==
  /\ IF IsAction(statics, kind, a, TRUE)
     THEN /\ statics' = statics
          /\ Acted("registerAction", "GeneralIDConflict", 0, kind, a)
     ELSE /\ statics' = [statics EXCEPT ![kind].all = @ \cup {a}]
          /\ Acted("registerAction", "undefined", 0, kind, a)
  /\ UNCHANGED <<objs, insts, subtext>>

\* Actionable.disable(action) / Agentive.disable(act), a string given
Disable(kind, a) ==
  /\ IF ~IsAction(statics, kind, a, TRUE)
     THEN /\ statics' = statics
          /\ Acted("disable", "false", 0, kind, a)
     ELSE /\ statics' = [statics EXCEPT ![kind].disabled = @ \cup {a}]
          /\ Acted("disable", "true", 0, kind, a)
  /\ UNCHANGED <<objs, insts, subtext>>

\* Actionable.enable(action) / Agentive.enable(act), a string given
Enable(kind, a) ==
  /\ IF ~IsAction(statics, kind, a, TRUE)
     THEN /\ statics' = statics
          /\ Acted("enable", "false", 0, kind, a)
     ELSE IF a \notin statics[kind].disabled
     THEN /\ statics' = statics
          /\ Acted("enable", "false", 0, kind, a)
     ELSE /\ statics' = [statics EXCEPT ![kind].disabled = @ \ {a}]
          /\ Acted("enable", "true", 0, kind, a)
  /\ UNCHANGED <<objs, insts, subtext>>

\* object._actions.agentsCan(action) / object._acts.can(act), a string given
AgentsCan(h, kind, a) ==
  /\ h \in 1..Len(objs)
  /\ HasComponent(Here, h, kind)
  /\ IF ~IsAction(statics, kind, a, TRUE)
     THEN /\ insts' = insts
          /\ Acted("agentsCan", "false", h, kind, a)
     ELSE /\ insts' = [insts EXCEPT ![OVal(objs[h].comps, kind)].data =
                         IF a \in Range(@) THEN @ ELSE Append(@, a)]
          /\ Acted("agentsCan", "true", h, kind, a)
  /\ UNCHANGED <<objs, statics, subtext>>

\* ------------------------------------------------------------- SubText
\* A string is a sequence of parts: plain text (a single space is a part of
\* its own), a substitution %id% and a conditional {id?ifTrue|ifFalse}.
TextPart(t) == <<"text", t>>
SubPart(id) == <<"sub", id>>
CondPart(id, ifTrue, ifFalse) == <<"cond", id, ifTrue, ifFalse>>
SpacePart == TextPart(" ")
MissingPart == TextPart("{MISSING}")

\* string.match(/{[^?{}]+?\?[^{}]+?}/) and string.match(/%[^%]+?%/)
MatchesConditional(string) == \E k \in 1..Len(string) : string[k][1] = "cond"
MatchesSubstitution(string) == \E k \in 1..Len(string) : string[k][1] = "sub"
\* Array.from(string.matchAll(...)): the matches in order
MatchAll(string, kind) == SelectSeq(string, LAMBDA part : part[1] = kind)

\* string.replace(inplace, by): the first occurrence only
ReplaceFirst(string, inplace, by) ==
  IF inplace \notin Range(string) THEN string
  ELSE With(CHOOSE i \in 1..Len(string) :
                   string[i] = inplace /\ \A j \in 1..(i - 1) : string[j] # inplace,
            LAMBDA i : [string EXCEPT ![i] = by])

\* string.replace(/ \{MISSING\}|\{MISSING\} /, ''): the leftmost match
CollapsesAt(string, i) ==
  /\ i < Len(string)
  /\ \/ string[i] = SpacePart /\ string[i + 1] = MissingPart
     \/ string[i] = MissingPart /\ string[i + 1] = SpacePart
Collapse(string) ==
  IF ~\E i \in 1..Len(string) : CollapsesAt(string, i) THEN string
  ELSE With(CHOOSE i \in 1..Len(string) :
                   CollapsesAt(string, i) /\ \A j \in 1..(i - 1) : ~CollapsesAt(string, j),
            LAMBDA i : SubSeq(string, 1, i - 1) \o SubSeq(string, i + 2, Len(string)))

\* the for loop of parseConditionals over one set of matches
RECURSIVE ConditionalsPass(_, _, _)
ConditionalsPass(string, matches, conditionals) ==
  IF matches = <<>> THEN string
  ELSE IF ~OHas(conditionals, Head(matches)[2])
  THEN ConditionalsPass(string, Tail(matches), conditionals)
  ELSE ConditionalsPass(
         ReplaceFirst(string, Head(matches),
                      TextPart(IF OVal(conditionals, Head(matches)[2])
                               THEN Head(matches)[3] ELSE Head(matches)[4])),
         Tail(matches), conditionals)

\* SubTextModule.parseConditionals(string): passes until nothing matches or
\* a pass changed nothing
RECURSIVE ParseConditionalsFrom(_, _, _)
ParseConditionalsFrom(string, previous, conditionals) ==
  IF ~MatchesConditional(string) \/ string = previous THEN string
  ELSE ParseConditionalsFrom(
         ConditionalsPass(string, MatchAll(string, "cond"), conditionals),
         string, conditionals)
ParseConditionals(string, conditionals) ==
  ParseConditionalsFrom(string, <<<<"undefined">>>>, conditionals)

\* the for loop of parseSubstitutions over one set of matches, the
\* identifiers having no dot
RECURSIVE SubstitutionsPass(_, _, _)
SubstitutionsPass(string, matches, substitutions) ==
  IF matches = <<>> THEN string
  ELSE IF OHas(substitutions, Head(matches)[2])
  THEN SubstitutionsPass(
         IF OVal(substitutions, Head(matches)[2]) # ""
         THEN ReplaceFirst(string, Head(matches),
                           TextPart(OVal(substitutions, Head(matches)[2])))
         ELSE Collapse(ReplaceFirst(string, Head(matches), MissingPart)),
         Tail(matches), substitutions)
  ELSE SubstitutionsPass(Collapse(ReplaceFirst(string, Head(matches), MissingPart)),
                         Tail(matches), substitutions)

\* SubTextModule.parseSubstitutions(string)
RECURSIVE ParseSubstitutionsFrom(_, _, _)
ParseSubstitutionsFrom(string, previous, substitutions) ==
  IF ~MatchesSubstitution(string) \/ string = previous THEN string
  ELSE ParseSubstitutionsFrom(
         SubstitutionsPass(string, MatchAll(string, "sub"), substitutions),
         string, substitutions)
ParseSubstitutions(string, substitutions) ==
  ParseSubstitutionsFrom(string, <<<<"undefined">>>>, substitutions)

SubTextOnly ==
  UNCHANGED <<objs, insts, all, templates, inner, listeners, hooks, context, gatherers,
              components, frames, statics, hist>>

\* SubTextModule.registerConditional(identifier, callback), `value` being
\* what the callback returns
RegisterConditional(identifier, value) ==
  /\ subtext.pc = "idle"
  /\ subtext' = [subtext EXCEPT !.conditionals = OSet(@, identifier, value)]
  /\ ret' = Ret("registerConditional",
                IF OHas(subtext.conditionals, identifier) THEN "false" ELSE "true",
                0, 0, identifier, "", <<>>)
  /\ SubTextOnly

\* SubTextModule.registerSubstitution(identifier, callback)
RegisterSubstitution(identifier, value) ==
  /\ subtext.pc = "idle"
  /\ IF OHas(subtext.substitutions, identifier)
     THEN /\ subtext' = subtext
          /\ ret' = Ret("registerSubstitution", "GeneralIDConflict", 0, 0, identifier, "", <<>>)
     ELSE /\ subtext' = [subtext EXCEPT !.substitutions = OSet(@, identifier, value)]
          /\ ret' = Ret("registerSubstitution", "undefined", 0, 0, identifier, "", <<>>)
  /\ SubTextOnly

\* SubTextModule.parse(string), one step per evaluation of a loop condition.
\* subtext.turns is the parity of the number of inner-loop bodies run so far
\* (ghost): a loop that runs again on an unchanged string is still a step.
\* ParseCall: entry, up to the outer while (true).
ParseCall(string) ==
  /\ subtext.pc = "idle"
  /\ subtext' = [subtext EXCEPT !.pc = "outer", !.string = string, !.turns = 0]
  /\ ret' = [Ret("parse:call", "pending", 0, 0, "", "", <<>>) EXCEPT !.before = string]
  /\ SubTextOnly
\* the break test of the outer loop; on break, the return
ParseOuter ==
  /\ subtext.pc = "outer"
  /\ IF ~MatchesConditional(subtext.string) /\ ~MatchesSubstitution(subtext.string)
     THEN /\ subtext' = [subtext EXCEPT !.pc = "idle", !.string = <<>>, !.turns = 0]
          /\ ret' = [Ret("parse", "string", 0, 0, "", "", <<>>)
                       EXCEPT !.before = ret.before, !.trace = subtext.string]
     ELSE /\ subtext' = [subtext EXCEPT !.pc = "conditionals"]
          /\ ret' = ret
  /\ SubTextOnly
\* while (string.match(conditional)) string = this.parseConditionals(string)
ParseInnerConditionals ==
  /\ subtext.pc = "conditionals"
  /\ subtext' = IF MatchesConditional(subtext.string)
                THEN [subtext EXCEPT !.string = ParseConditionals(@, subtext.conditionals),
                                     !.turns = 1 - @]
                ELSE [subtext EXCEPT !.pc = "substitutions"]
  /\ ret' = ret
  /\ SubTextOnly
\* while (string.match(substitution)) string = this.parseSubstitutions(string)
ParseInnerSubstitutions ==
  /\ subtext.pc = "substitutions"
  /\ subtext' = IF MatchesSubstitution(subtext.string)
                THEN [subtext EXCEPT !.string = ParseSubstitutions(@, subtext.substitutions),
                                     !.turns = 1 - @]
                ELSE [subtext EXCEPT !.pc = "outer"]
  /\ ret' = ret
  /\ SubTextOnly

\* object.tag(tag)
Tag(h, t) ==
  /\ h \in 1..Len(objs)
  /\ objs' = TagW(Here, h, t).objs
  /\ ret' = [Ret("tag", IF t \in Range(objs[h].tags) THEN "false" ELSE "true",
                 h, 0, t, "", <<>>)
              EXCEPT !.trace = TagTrace(Here, h, t)]
  /\ UNCHANGED <<insts, all, templates, inner, listeners, hooks, context, gatherers, components, frames, statics, subtext, hist>>

\* object.untag(tag)
Untag(h, t) ==
  /\ h \in 1..Len(objs)
  /\ objs' = [objs EXCEPT ![h].tags = SeqRemove(@, t)]
  /\ ret' = [Ret("untag", IF t \in Range(objs[h].tags) THEN "true" ELSE "false",
                 h, 0, t, "", <<>>)
              EXCEPT !.trace = UntagTrace(Here, h, t)]
  /\ UNCHANGED <<insts, all, templates, inner, listeners, hooks, context, gatherers, components, frames, statics, subtext, hist>>

\* object.isTagged(tag)
IsTagged(h, t) ==
  /\ h \in 1..Len(objs)
  /\ ret' = Ret("isTagged", IF t \in Range(objs[h].tags) THEN "true" ELSE "false",
                h, 0, t, "", <<>>)
  /\ UNCHANGED <<objs, insts, all, templates, inner, listeners, hooks, context, gatherers, components, frames, statics, subtext, hist>>

\* the instance behind the accessor field object[reference]
Accessor(os, h, T) == OVal(os[h].acc, Reference(T))
HasAccessor(os, h, T) == OHas(os[h].acc, Reference(T))

\* object._states.create(variable, value)
StatefulCreate(h, var, val) ==
  /\ h \in 1..Len(objs)
  /\ HasAccessor(objs, h, "Stateful")
  /\ LET i == Accessor(objs, h, "Stateful")
     IN IF OHas(insts[i].data, var)
        THEN /\ insts' = insts
             /\ ret' = Ret("create", "false", h, 0, "", "Stateful", <<>>)
        ELSE /\ insts' = [insts EXCEPT ![i].data = Append(@, <<var, val>>)]
             /\ ret' = Ret("create", "true", h, 0, "", "Stateful", <<>>)
  /\ UNCHANGED <<objs, all, templates, inner, listeners, hooks, context, gatherers, components, frames, statics, subtext, hist>>

\* object._states.set(variable, value)
StatefulSet(h, var, val) ==
  /\ h \in 1..Len(objs)
  /\ HasAccessor(objs, h, "Stateful")
  /\ LET i == Accessor(objs, h, "Stateful")
     IN IF ~OHas(insts[i].data, var)
        THEN /\ insts' = insts
             /\ ret' = Ret("set", "false", h, 0, "", "Stateful", <<>>)
        ELSE /\ insts' = [insts EXCEPT ![i].data = OSet(@, var, val)]
             /\ ret' = Ret("set", "true", h, 0, "", "Stateful", <<>>)
  /\ UNCHANGED <<objs, all, templates, inner, listeners, hooks, context, gatherers, components, frames, statics, subtext, hist>>

\* object._strings.set(key, string)
StringfulSet(h, key, val) ==
  /\ h \in 1..Len(objs)
  /\ HasAccessor(objs, h, "Stringful")
  /\ insts' = [insts EXCEPT
                 ![Accessor(objs, h, "Stringful")].data = OSet(@, ActualKey(key), val)]
  /\ ret' = Ret("set", "true", h, 0, "", "Stringful", <<>>)
  /\ UNCHANGED <<objs, all, templates, inner, listeners, hooks, context, gatherers, components, frames, statics, subtext, hist>>

\* object._perceptions.setPerception('sight', context, description)
SetPerception(h, ctx, val) ==
  /\ h \in 1..Len(objs)
  /\ HasAccessor(objs, h, "Perceptible")
  /\ LET i == Accessor(objs, h, "Perceptible")
         s == Accessor(objs, insts[i].parent, "Stringful")
     IN /\ insts' = [insts EXCEPT
                       ![i].data = OSet(@, ctx, val),
                       ![s].data = OSet(@, <<Locale, "sense", "sight", ctx>>, val)]
        /\ ret' = Ret("setPerception",
                      IF OHas(insts[i].data, ctx) THEN "true" ELSE "false",
                      h, 0, "", "Perceptible", <<>>)
  /\ UNCHANGED <<objs, all, templates, inner, listeners, hooks, context, gatherers, components, frames, statics, subtext, hist>>

\* TemplateModule.register(name, object)
TemplateRegister(name, h) ==
  /\ h \in 1..Len(objs)
  /\ IF OHas(templates, name)
     THEN /\ ret' = Ret("register", "GeneralIDConflict", h, 0, name, "", <<>>)
          /\ UNCHANGED <<templates, hist>>
     ELSE \E s \in {GameObjectSerializer(Here, h, InnerGet(InnerPush(inner, "serializing")))} :
             /\ templates' = OSet(templates, name,
                                  [name |-> name, serialized |-> s.data, instances |-> 0])
             /\ hist' = [hist EXCEPT !.snap0 = OSet(@, name, Plain(insts, s.data))]
             /\ ret' = Ret("register", "none", h, 0, name, "", <<>>)
  /\ UNCHANGED <<objs, insts, all, inner, listeners, hooks, context, gatherers, components, frames, statics, subtext>>

\* TemplateModule.instantiate(name)
Instantiate(name) ==
  /\ Len(objs) < MaxObjects
  /\ IF ~OHas(templates, name)
     THEN /\ ret' = Ret("instantiate", "false", 0, 0, name, "", <<>>)
          /\ UNCHANGED <<objs, insts, all, templates, inner, hist>>
     ELSE LET registered == OVal(templates, name)
              pushed  == InnerPush(inner, "instantiating")
              mangled == [registered.serialized EXCEPT
                            !.id = Mangle(@, registered.instances)]
          IN \E d \in {GameObjectDeserializer(Here, mangled, InnerGet(pushed))} :
             /\ registered.instances < MaxInstances
             /\ IF d.thrown # "none"
                THEN /\ Commit(d.w, OSet(templates, name,
                                           [registered EXCEPT
                                              !.serialized = d.data,
                                              !.instances = @ + 1]))
                     /\ inner' = pushed
                     /\ hist' = hist
                     /\ ret' = [Ret("instantiate", d.thrown, 0, 0, name, "", mangled.id)
                                  EXCEPT !.attach = d.attach]
                ELSE /\ Commit(TagW(d.w, d.h, ProvenanceTag(name)),
                             OSet(templates, name,
                                  [registered EXCEPT
                                     !.serialized = [d.data EXCEPT !.id = StripInstance(@)],
                                     !.instances = @ + 1]))
                     /\ inner' = InnerPop(pushed)
                     /\ hist' = [hist EXCEPT !.issued = Append(@, <<name, d.h>>)]
                     /\ ret' = [Ret("instantiate", "instance", d.h, 0, name, "", mangled.id)
                                  EXCEPT !.attach = d.attach]
  /\ UNCHANGED <<listeners, hooks, context, gatherers, components, frames, statics, subtext>>

\* TemplateModule.instantiate(name) up to the point where the deserializer of
\* a component of the snapshot is running (GameObject.deserializer's loop):
\* the state is pushed, the snapshot id mangled, the counter advanced and
\* the entity constructed.  A deserializer that itself calls instantiate
\* takes this step again before the pending call takes InstantiateReturn.
\* An exception unwinds every pending call.
InstantiateCall(name) ==
  /\ OHas(templates, name)
  /\ Len(objs) < MaxObjects
  /\ Len(frames) < MaxDepth
  /\ LET registered == OVal(templates, name)
         pushed  == InnerPush(inner, "instantiating")
         mangled == [registered.serialized EXCEPT
                       !.id = Mangle(@, registered.instances)]
     IN \E d \in {GameObjectDeserializer(Here, mangled, InnerGet(pushed))} :
          /\ registered.instances < MaxInstances
          /\ Commit(d.w, OSet(templates, name,
                               [registered EXCEPT !.serialized = d.data,
                                                  !.instances = @ + 1]))
          /\ inner' = pushed
          /\ frames' = IF d.thrown # "none" THEN <<>>
                       ELSE <<[name |-> name, h |-> d.h]>> \o frames
          /\ ret' = [Ret("instantiate:call", IF d.thrown # "none" THEN d.thrown ELSE "pending",
                         0, 0, name, "", mangled.id)
                       EXCEPT !.attach = d.attach, !.count = Len(frames)]
  /\ UNCHANGED <<listeners, hooks, context, gatherers, components, statics, subtext, hist>>

\* the rest of the innermost pending instantiate: the provenance tag, the
\* restore of the snapshot id, the pop of the state, the return.
\* ret.count is the number of calls still pending around the returning one.
InstantiateReturn ==
  /\ frames # <<>>
  /\ LET name == Head(frames).name
         h == Head(frames).h
         registered == OVal(templates, name)
     IN /\ Commit(TagW(Here, h, ProvenanceTag(name)),
                  OSet(templates, name,
                       [registered EXCEPT !.serialized.id = StripInstance(@)]))
        /\ inner' = InnerPop(inner)
        /\ frames' = Tail(frames)
        /\ hist' = [hist EXCEPT !.issued = Append(@, <<name, h>>)]
        /\ ret' = [Ret("instantiate", "instance", h, 0, name, "", objs[h].id)
                     EXCEPT !.count = Len(frames) - 1]
  /\ UNCHANGED <<listeners, hooks, context, gatherers, components, statics, subtext>>

\* GameObject.deserializer(object.serialize())
Deserialize(h) ==
  /\ h \in 1..Len(objs)
  /\ Len(objs) < MaxObjects
  /\ \E st \in {InnerGet(inner)} : \E s \in {GameObjectSerializer(Here, h, st)} :
        IF s.thrown # "none"
        THEN /\ ret' = Ret("deserialize", s.thrown, 0, h, "", "", objs[h].id)
             /\ UNCHANGED <<objs, insts, all, templates>>
        ELSE \E d \in {GameObjectDeserializer(Here, s.data, st)} :
             /\ Commit(d.w, templates)
             /\ ret' = [Ret("deserialize", IF d.thrown = "none" THEN "instance" ELSE d.thrown,
                            d.h, h, "", "", objs[h].id)
                          EXCEPT !.attach = d.attach]
  /\ UNCHANGED <<inner, listeners, hooks, context, gatherers, components, frames, statics, subtext, hist>>

\* -------------------------------------------------------------- event bus
\* Event names and listener patterns are dot-separated segments; the code
\* handles them as strings, modelled as sequences of characters.
EventNames == {<<"a", "b", "c">>, <<"a", "b", "b", "c">>, <<"a", "c">>}
Patterns == {<<"a", "*", "c">>, <<"a", "**", "c">>, <<"a", "b", "c">>}
\* callbacks are functions compared by identity; an owner is a GameObject
\* or undefined ("none")
Callbacks == {"cb1", "cb2"}
Owners == {"none", "o1"}

SegmentChars(seg) == IF seg = "**" THEN <<"*", "*">> ELSE <<seg>>
RECURSIVE Text(_)
Text(segs) ==
  IF segs = <<>> THEN <<>>
  ELSE IF Len(segs) = 1 THEN SegmentChars(segs[1])
  ELSE SegmentChars(segs[1]) \o <<".">> \o Text(Tail(segs))

\* String.prototype.includes
RECURSIVE Includes(_, _)
Includes(s, sub) ==
  IF Len(s) < Len(sub) THEN FALSE
  ELSE SubSeq(s, 1, Len(sub)) = sub \/ Includes(Tail(s), sub)

\* A compiled regular expression is a sequence of tokens [class, c, rep]:
\* class "lit" matches the character c, "any" any character, "nodot" any
\* character but '.'; rep says the token may repeat zero or more times.
Token(class, c, r) == [class |-> class, c |-> c, rep |-> r]
\* a '*' left in the source repeats the token before it
Repeated(toks) ==
  IF toks = <<>> THEN toks ELSE [toks EXCEPT ![Len(toks)].rep = TRUE]

\* new RegExp('^' + e.replaceAll('.', '\.').replaceAll('**', '.*?') + '$'):
\* '\.' is the string '.', so a dot stays the any-character wildcard
RECURSIVE GlobstarRegex(_, _)
GlobstarRegex(e, toks) ==
  IF e = <<>> THEN toks
  ELSE IF Len(e) >= 2 /\ e[1] = "*" /\ e[2] = "*"
  THEN GlobstarRegex(SubSeq(e, 3, Len(e)), Append(toks, Token("any", "", TRUE)))
  ELSE IF e[1] = "*" THEN GlobstarRegex(Tail(e), Repeated(toks))
  ELSE IF e[1] = "." THEN GlobstarRegex(Tail(e), Append(toks, Token("any", "", FALSE)))
  ELSE GlobstarRegex(Tail(e), Append(toks, Token("lit", e[1], FALSE)))

\* new RegExp('^' + e.replaceAll('.', '\.').replaceAll('*', '[^.]*') + '$')
RECURSIVE StarRegex(_, _)
StarRegex(e, toks) ==
  IF e = <<>> THEN toks
  ELSE IF e[1] = "*" THEN StarRegex(Tail(e), Append(toks, Token("nodot", "", TRUE)))
  ELSE IF e[1] = "." THEN StarRegex(Tail(e), Append(toks, Token("any", "", FALSE)))
  ELSE StarRegex(Tail(e), Append(toks, Token("lit", e[1], FALSE)))

TokenAccepts(t, ch) ==
  CASE t.class = "lit"   -> ch = t.c
    [] t.class = "nodot" -> ch # "."
    [] OTHER             -> TRUE

\* event.match(regex), the regex anchored at both ends
RECURSIVE RegexMatch(_, _)
RegexMatch(toks, str) ==
  IF toks = <<>> THEN str = <<>>
  ELSE IF Head(toks).rep
  THEN \E k \in 0..Len(str) :
         /\ \A j \in 1..k : TokenAccepts(Head(toks), str[j])
         /\ RegexMatch(Tail(toks), SubSeq(str, k + 1, Len(str)))
  ELSE /\ str # <<>>
       /\ TokenAccepts(Head(toks), Head(str))
       /\ RegexMatch(Tail(toks), Tail(str))

\* the listeners one entry [e, l] of #listeners contributes to an emit
Pushed(e, l, event) ==
  (IF Includes(e, <<"*", "*">>) /\ RegexMatch(GlobstarRegex(e, <<>>), event)
   THEN l ELSE <<>>)
  \o (IF Includes(e, <<"*">>) /\ RegexMatch(StarRegex(e, <<>>), event)
      THEN l ELSE <<>>)

RECURSIVE Gathered(_, _)
Gathered(entries, event) ==
  IF entries = <<>> THEN <<>>
  ELSE Pushed(Head(entries)[1], Head(entries)[2], event) \o Gathered(Tail(entries), event)

\* the callbacks run by the final loop: it stops at the first once-listener,
\* where listeners.delete (listeners is an Array) throws
RECURSIVE Called(_)
Called(ls) ==
  IF ls = <<>> THEN [invoked |-> <<>>, thrown |-> "none"]
  ELSE IF Head(ls).once THEN [invoked |-> <<Head(ls)>>, thrown |-> "TypeError"]
  ELSE [invoked |-> <<Head(ls)>> \o Called(Tail(ls)).invoked,
        thrown |-> Called(Tail(ls)).thrown]

\* EventModule.on(event, callback, {owner, once}): Map.set returns the Map,
\* which has no add(); the first call for an event stores an empty Set and
\* throws, a later call finds the Set and adds nothing to it.
On(pattern, callback, owner, once) ==
  /\ IF OHas(listeners, Text(pattern))
     THEN /\ listeners' = listeners
          /\ ret' = [Ret("on", "undefined", 0, 0, "", "", <<>>)
                      EXCEPT !.event = pattern, !.callback = callback,
                             !.owner = owner, !.once = once]
     ELSE /\ listeners' = OSet(listeners, Text(pattern), <<>>)
          /\ ret' = [Ret("on", "TypeError", 0, 0, "", "", <<>>)
                      EXCEPT !.event = pattern, !.callback = callback,
                             !.owner = owner, !.once = once]
  /\ hist' = [hist EXCEPT !.listened = @ \cup {pattern}]
  /\ UNCHANGED <<objs, insts, all, templates, inner, hooks, context, gatherers, components, frames, statics, subtext>>

\* EventModule.emit(event, data)
Emit(event) ==
  /\ IF ~OHas(listeners, Text(event))
     THEN ret' = [Ret("emit", "undefined", 0, 0, "", "", <<>>) EXCEPT !.event = event]
     ELSE \E c \in {Called(OVal(listeners, Text(event))
                           \o Gathered(listeners, Text(event)))} :
            ret' = [Ret("emit", IF c.thrown = "none" THEN "undefined" ELSE c.thrown,
                        0, 0, "", "", <<>>)
                      EXCEPT !.event = event, !.invoked = c.invoked]
  /\ UNCHANGED <<objs, insts, all, templates, inner, listeners, hooks, context, gatherers, components, frames, statics, subtext, hist>>

\* the listeners that off(event, callback, {owner, once}) deletes from a Set:
\* an absent (falsy) owner or once option matches every listener
OffMatches(l, callback, owner, once) ==
  /\ l.callback = callback
  /\ (owner = "none" \/ l.owner = owner)
  /\ (~once \/ l.once = once)

\* EventModule.off(event, callback, {owner, once}): false when the event has
\* no entry, otherwise the number of listeners deleted
Off(pattern, callback, owner, once) ==
  /\ IF ~OHas(listeners, Text(pattern))
     THEN /\ listeners' = listeners
          /\ ret' = [Ret("off", "false", 0, 0, "", "", <<>>)
                      EXCEPT !.event = pattern, !.callback = callback,
                             !.owner = owner, !.once = once]
     ELSE \E ls \in {OVal(listeners, Text(pattern))} :
          /\ listeners' = OSet(listeners, Text(pattern),
                               SelectSeq(ls, LAMBDA l : ~OffMatches(l, callback, owner, once)))
          /\ ret' = [Ret("off", "number", 0, 0, "", "", <<>>)
                      EXCEPT !.event = pattern, !.callback = callback,
                             !.owner = owner, !.once = once,
                             !.count = Len(SelectSeq(ls,
                                LAMBDA l : OffMatches(l, callback, owner, once)))]
  /\ UNCHANGED <<objs, insts, all, templates, inner, hooks, context, gatherers, components, frames, statics, subtext, hist>>

\* EventModule.removeAllBy(owner)
RemoveAllBy(owner) ==
  /\ listeners' = [k \in 1..Len(listeners) |->
                     <<listeners[k][1],
                       SelectSeq(listeners[k][2], LAMBDA l : l.owner # owner)>>]
  /\ ret' = [Ret("removeAllBy", "undefined", 0, 0, "", "", <<>>) EXCEPT !.owner = owner]
  /\ UNCHANGED <<objs, insts, all, templates, inner, hooks, context, gatherers, components, frames, statics, subtext, hist>>

\* A property value: a number, a boolean (v is 0 or 1), a string ("a" is 1,
\* "b" is 2) or undefined.
JSValue(t, v) == [t |-> t, v |-> v]
PropertyValues ==
  {JSValue("number", 1), JSValue("number", 2),
   JSValue("boolean", 0), JSValue("boolean", 1),
   JSValue("string", 1), JSValue("string", 2), JSValue("undefined", 0)}
PropertyPrefixes == {"states.", "tangible."}
PropertyNames == {"hp"}
\* x < y: two strings compare as text, anything else as numbers, a string
\* that is not numeric and undefined being NaN
JSLess(x, y) ==
  IF x.t = "string" /\ y.t = "string" THEN x.v < y.v
  ELSE /\ x.t \in {"number", "boolean"}
       /\ y.t \in {"number", "boolean"}
       /\ x.v < y.v

\* the events of emitPropertyEvents after '<prefix><property>': without
\* braces, `if (both numbers)` holds only the `increased` test, and the
\* `decreased` test that follows owns the `else if (both booleans)` branch
PropertyEvents(previous, current) ==
  <<"set">>
  \o (IF previous = current THEN <<"changed.not">> ELSE <<"changed">>)
  \o (IF previous.t = "number" /\ current.t = "number" /\ JSLess(previous, current)
      THEN <<"increased">> ELSE <<>>)
  \o (IF JSLess(current, previous) THEN <<"decreased">>
      ELSE IF previous.t = "boolean" /\ current.t = "boolean"
      THEN (IF previous = current THEN <<"toggled.not">> ELSE <<"toggled">>)
      ELSE <<>>)

\* EventModule.emitPropertyEvents({property, previous, current}, prefix):
\* each event goes through EventModule.emit, which returns at once for a
\* name that has no entry in #listeners
EmitPropertyEvents(prefix, property, previous, current) ==
  /\ ret' = [Ret("emitPropertyEvents", "undefined", 0, 0, "", "", <<>>)
              EXCEPT !.emitted = [k \in 1..Len(PropertyEvents(previous, current)) |->
                                    <<prefix, property, PropertyEvents(previous, current)[k]>>],
                     !.value = <<previous, current>>]
  /\ UNCHANGED <<objs, insts, all, templates, inner, listeners, hooks, context, gatherers, components, frames, statics, subtext, hist>>

\* --------------------------------------------------------------- hook bus
HookNames == {"before:GameObject.instance.tag", "after:GameObject.instance.tag", "turn"}

\* HookModule.attach(hook, callback): as in EventModule.on, Map.set returns
\* the Map, which has no add(); the first call for a hook stores an empty
\* Set and throws, a later call finds the Set and adds nothing to it.
\* hist.attached: the <<hook, callback>> pairs of the calls that returned
HookAttach(hook, callback) ==
  /\ IF OHas(hooks, hook)
     THEN /\ hooks' = hooks
          /\ hist' = [hist EXCEPT !.attached = @ \cup {<<hook, callback>>}]
          /\ ret' = [Ret("attach", "undefined", 0, 0, hook, "", <<>>)
                      EXCEPT !.callback = callback]
     ELSE /\ hooks' = OSet(hooks, hook, <<>>)
          /\ hist' = hist
          /\ ret' = [Ret("attach", "TypeError", 0, 0, hook, "", <<>>)
                      EXCEPT !.callback = callback]
  /\ UNCHANGED <<objs, insts, all, templates, inner, listeners, context, gatherers, components, frames, statics, subtext>>

\* HookModule.run(hook, args, object): every callback of the hook's Set
HookRun(hook) ==
  /\ ret' = [Ret("run", "undefined", 0, 0, hook, "", <<>>)
              EXCEPT !.invoked = IF OHas(hooks, hook) THEN OVal(hooks, hook) ELSE <<>>]
  /\ UNCHANGED <<objs, insts, all, templates, inner, listeners, hooks, context, gatherers, components, frames, statics, subtext, hist>>

\* ---------------------------------------------------------- context stacks
\* Labels are own property names of the #context object; the objects pushed
\* are compared by identity.
Labels == {"agent", "target"}
ContextValues == {"alice", "bob"}
\* the argument of push: an object, as its <<label, value>> entries in order
PushInputs ==
  {<<<<l, v>>>> : l \in Labels, v \in ContextValues}
  \cup {<<<<"agent", v1>>, <<"target", v2>>>> : v1 \in ContextValues, v2 \in ContextValues}
\* the argument of pop: an array of labels
PopInputs ==
  {<<l>> : l \in Labels} \cup {<<l1, l2>> : l1 \in Labels, l2 \in Labels}

RECURSIVE ContextPushLast(_, _)
RECURSIVE ContextPush(_, _)
RECURSIVE ContextPop(_, _, _)
\* ContextModule.push: if (!(label in #context)) #context[label] = [];
\* #context[label].unshift(objects[label])
\* (variant: the value goes to the far end of the stack)
ContextPushLast(ctx, objects) ==
  IF objects = <<>> THEN ctx
  ELSE ContextPushLast(
         OSet(ctx, Head(objects)[1],
              (IF OHas(ctx, Head(objects)[1]) THEN OVal(ctx, Head(objects)[1]) ELSE <<>>)
              \o <<Head(objects)[2]>>),
         Tail(objects))
ContextPush(ctx, objects) ==
  IF objects = <<>> THEN ctx
  ELSE ContextPush(
         OSet(ctx, Head(objects)[1],
              <<Head(objects)[2]>>
              \o (IF OHas(ctx, Head(objects)[1]) THEN OVal(ctx, Head(objects)[1]) ELSE <<>>)),
         Tail(objects))

\* ContextModule.pop, from the label at the head of `labels` on, `n` failures
\* counted so far: shift() when the label is present, ret++ otherwise; then
\* #context[label].length is read, which throws for an absent label.
\* Result: [ctx, count, thrown].
ContextPop(ctx, labels, n) ==
  IF labels = <<>> THEN [ctx |-> ctx, count |-> n, thrown |-> "none"]
  ELSE IF ~OHas(ctx, Head(labels))
  THEN [ctx |-> ctx, count |-> n + 1, thrown |-> "TypeError"]
  ELSE IF Len(OVal(ctx, Head(labels))) <= 1
  THEN ContextPop(ODelete(ctx, Head(labels)), Tail(labels), n)
  ELSE ContextPop(OSet(ctx, Head(labels), Tail(OVal(ctx, Head(labels)))), Tail(labels), n)

\* ContextModule.get(label): #context[label].at(0), or undefined
ContextGet(ctx, label) ==
  IF OHas(ctx, label) THEN OVal(ctx, label)[1] ELSE "undefined"

Push(objects) ==
  /\ \A k \in 1..Len(objects) :
        OHas(context, objects[k][1]) => Len(OVal(context, objects[k][1])) < MaxDepth
  /\ context' = ContextPush(context, objects)
  /\ ret' = [Ret("push", "undefined", 0, 0, "", "", <<>>) EXCEPT !.labels = objects]
  /\ UNCHANGED <<objs, insts, all, templates, inner, listeners, hooks, gatherers, components, frames, statics, subtext, hist>>

Pop(labels) ==
  /\ \E r \in {ContextPop(context, labels, 0)} :
       /\ context' = r.ctx
       /\ ret' = [Ret("pop", IF r.thrown = "none" THEN "number" ELSE r.thrown,
                       0, 0, "", "", <<>>)
                   EXCEPT !.labels = labels, !.count = r.count]
  /\ UNCHANGED <<objs, insts, all, templates, inner, listeners, hooks, gatherers, components, frames, statics, subtext, hist>>

Get(label) ==
  /\ ret' = [Ret("get", "value", 0, 0, "", "", <<>>)
              EXCEPT !.labels = <<label>>, !.value = ContextGet(context, label)]
  /\ UNCHANGED <<objs, insts, all, templates, inner, listeners, hooks, context, gatherers, components, frames, statics, subtext, hist>>

\* RegistryBase.register(id, value) on GameObject, value an entity.
\* Result: [w, thrown]
\* (variant: Map.set without the has() test)
RegisterOverwrite(w, id, h) ==
  [w |-> [w EXCEPT !.objs[h].id = id, !.all = AllSet(@, id, h)], thrown |-> "none"]
RegisterW(w, id, h) ==
  IF AllHas(w.all, id)
  THEN [w |-> w, thrown |-> "GeneralIDConflict"]
  ELSE [w |-> [w EXCEPT !.objs[h].id = id, !.all = AllSet(@, id, h)], thrown |-> "none"]

\* actualComponent.constructor.name: the constructor of a class is Function
ClassConstructorName(T) == "Function"
\* actualComponent.prototype.constructor.name: the class's own name
PrototypeConstructorName(T) == T

QueryArgs ==
  {<<"class", "Tangible">>, <<"class", "Stateful">>, <<"name", "Tangible">>,
   <<"instance", "Tangible">>, <<"name", "Nope">>}

\* object.hasComponent(component)
HasComponentCall(h, arg) ==
  /\ h \in 1..Len(objs)
  /\ \E T \in {ComponentResolve(arg)} :
       ret' = Ret("hasComponent",
                  IF T = "NotComponent" THEN "NotComponent"
                  ELSE IF OHas(objs[h].comps, PrototypeConstructorName(T)) THEN "true"
                  ELSE "false",
                  h, 0, arg[1], arg[2], <<>>)
  /\ UNCHANGED <<objs, insts, all, templates, inner, listeners, hooks, context, gatherers, components, frames, statics, subtext, hist>>

\* object.component(component): this._components.get(...) || null
\* ret.count is the instance returned
ComponentCall(h, arg) ==
  /\ h \in 1..Len(objs)
  /\ \E T \in {ComponentResolve(arg)} :
       ret' = IF T = "NotComponent"
              THEN Ret("component", "NotComponent", h, 0, arg[1], arg[2], <<>>)
              ELSE IF OHas(objs[h].comps, ClassConstructorName(T))
              THEN [Ret("component", "instance", h, 0, arg[1], arg[2], <<>>)
                      EXCEPT !.count = OVal(objs[h].comps, ClassConstructorName(T))]
              ELSE Ret("component", "null", h, 0, arg[1], arg[2], <<>>)
  /\ UNCHANGED <<objs, insts, all, templates, inner, listeners, hooks, context, gatherers, components, frames, statics, subtext, hist>>

\* The first argument of GameObject.resolve: an entity, a string id, or
\* something else; ids with the 'instantiate:' prefix are not among them.
ResolveIds == {<<"rock">>, <<"gem">>}
\* options.proto, options.components, options.component ("" / <<>>: absent)
ProtoInputs == {"", "GameObject", "Area"}
ComponentsInputs == {<<>>, <<"Tangible">>}
ComponentInputs == {"", "Tangible", "Stateful"}

\* options.proto.isPrototypeOf(object): a constructor function is not on the
\* prototype chain of the instances it constructs
IsPrototypeOf(class, h) == FALSE

\* GameObject.resolve(id, options), from the checks on.  Result: the outcome.
ResolveChecks(w, h, proto, comps, component) ==
  IF proto # "" /\ IsPrototypeOf(proto, h) THEN "false"
  ELSE IF \E k \in 1..Len(comps) : ~HasComponent(w, h, comps[k]) THEN "false"
  ELSE IF component # "" /\ ~HasComponent(w, h, component) THEN "false"
  ELSE "instance"

\* GameObject.resolve(id, options); given is <<"instance", h>>, <<"string", id>>
\* or <<"other">>
Resolve(given, proto, comps, component) ==
  /\ given[1] = "instance" => given[2] \in 1..Len(objs)
  /\ \E h \in {IF given[1] = "instance" THEN given[2]
                ELSE IF given[1] = "string" THEN GetByID(all, given[2]) ELSE 0} :
     \E out \in {IF given[1] = "other" THEN "NotGameObject"
                  ELSE IF h = 0 THEN "null"
                  ELSE ResolveChecks(Here, h, proto, comps, component)} :
       ret' = [Ret("resolve", out, IF out = "instance" THEN h ELSE 0,
                   IF given[1] = "instance" THEN given[2] ELSE 0,
                   proto, component, IF given[1] = "string" THEN given[2] ELSE <<>>)
                 EXCEPT !.labels = comps, !.found = IF h = 0 THEN {} ELSE {h}]
  /\ UNCHANGED <<objs, insts, all, templates, inner, listeners, hooks, context, gatherers, components, frames, statics, subtext, hist>>

\* get baseID(): this._id.match(/^(.+?)__i\d+$/), match[1] or this._id
BaseID(id) ==
  IF Len(id) > 1 /\ IsIntSuffix(id[Len(id)]) THEN SubSeq(id, 1, Len(id) - 1) ELSE id

\* GameObject.getAllByBaseID(baseID): the stored values whose baseID is it
GetAllByBaseID(baseID) ==
  /\ ret' = [Ret("getAllByBaseID", "array", 0, 0, "", "", baseID)
              EXCEPT !.found = {e[2] : e \in {x \in all : BaseID(objs[x[2]].id) = baseID}}]
  /\ UNCHANGED <<objs, insts, all, templates, inner, listeners, hooks, context, gatherers, components, frames, statics, subtext, hist>>

RegisterIds == {<<"rock">>, <<"gem">>}
Register(id, h) ==
  /\ h \in 1..Len(objs)
  /\ \E r \in {RegisterW(Here, id, h)} :
       /\ objs' = r.w.objs
       /\ all' = r.w.all
       /\ ret' = Ret("RegistryBase.register", IF r.thrown = "none" THEN "this" ELSE r.thrown,
                     h, 0, "", "", id)
  /\ UNCHANGED <<insts, templates, inner, listeners, hooks, context, gatherers, components, frames, statics, subtext, hist>>

\* Component classes handed to registerComponent, and options.as ("" when
\* the option is absent: options?.as ?? component.name)
ComponentRegistrations ==
  {<<"Stateful", "">>, <<"Combatant", "Tangible">>, <<"Combatant", "Fighter">>}
RegisteredAs(T, as) == IF as = "" THEN T ELSE as

\* Map.set on RasPG.runtime.components
ComponentsSet(cs, name, T) ==
  [n \in DOMAIN cs \cup {name} |-> IF n = name THEN T ELSE cs[n]]

\* RasPG.registerComponent(component, {as})
RegisterComponent(T, as) ==
  /\ IF RegisteredAs(T, as) \in DOMAIN components
     THEN /\ components' = components
          /\ ret' = Ret("registerComponent", "false", 0, 0, RegisteredAs(T, as), T, <<>>)
     ELSE /\ components' = ComponentsSet(components, RegisteredAs(T, as), T)
          /\ ret' = Ret("registerComponent", "this", 0, 0, RegisteredAs(T, as), T, <<>>)
  /\ UNCHANGED <<objs, insts, all, templates, inner, listeners, hooks, context, gatherers, frames, statics, subtext, hist>>

\* Gatherers: appliesTo(object) is the set of seeds it accepts, callback(object)
\* the pushable object it returns.
GathererNames == {"g1", "g2"}
Seeds == {"hero", "door"}
GathererInputs ==
  {[applies |-> a, yields |-> y] :
     a \in {{"hero"}, {"hero", "door"}},
     y \in {<<<<"agent", "alice">>>>, <<<<"target", "bob">>, <<"agent", "bob">>>>}}
\* options.skip; gatherFrom(object) without options skips nothing
SkipInputs == {<<>>, <<"g1">>}

RECURSIVE ObjectAssign(_, _)
RECURSIVE GatheredAll(_, _, _, _)
RECURSIVE GatheredContext(_, _, _, _)
\* Object.assign(target, source): a key already present keeps its place
ObjectAssign(target, source) ==
  IF source = <<>> THEN target
  ELSE ObjectAssign(OSet(target, Head(source)[1], Head(source)[2]), Tail(source))

\* the loop of gatherFrom over #gatherers.entries(), from entry k on.
\* Result: [ctx |-> gatheredContext, ran |-> names of the gatherers called]
\* (variant: options.skip is not consulted)
GatheredAll(gs, seed, skip, acc) ==
  IF gs = <<>> THEN acc
  ELSE IF seed \in Head(gs)[2].applies
  THEN GatheredAll(Tail(gs), seed, skip,
                   [ctx |-> ObjectAssign(acc.ctx, Head(gs)[2].yields),
                    ran |-> Append(acc.ran, Head(gs)[1])])
  ELSE GatheredAll(Tail(gs), seed, skip, acc)
GatheredContext(gs, seed, skip, acc) ==
  IF gs = <<>> THEN acc
  ELSE IF Head(gs)[1] \in Range(skip)
  THEN GatheredContext(Tail(gs), seed, skip, acc)
  ELSE IF seed \in Head(gs)[2].applies
  THEN GatheredContext(Tail(gs), seed, skip,
                       [ctx |-> ObjectAssign(acc.ctx, Head(gs)[2].yields),
                        ran |-> Append(acc.ran, Head(gs)[1])])
  ELSE GatheredContext(Tail(gs), seed, skip, acc)

\* Array.from(Object.keys(object))
ObjectKeys(object) == [k \in 1..Len(object) |-> object[k][1]]

\* ContextModule.registerGatherer(name, gatherer): Map.set
RegisterGatherer(name, gatherer) ==
  /\ gatherers' = OSet(gatherers, name, gatherer)
  /\ ret' = Ret("registerGatherer", "undefined", 0, 0, name, "", <<>>)
  /\ UNCHANGED <<objs, insts, all, templates, inner, listeners, hooks, context, components, frames, statics, subtext, hist>>

\* ContextModule.gatherFrom(object, {skip})
GatherFrom(seed, skip) ==
  \E g \in {GatheredContext(gatherers, seed, skip, [ctx |-> <<>>, ran |-> <<>>])} :
    /\ \A k \in 1..Len(g.ctx) :
          OHas(context, g.ctx[k][1]) => Len(OVal(context, g.ctx[k][1])) < MaxDepth
    /\ context' = ContextPush(context, g.ctx)
    /\ ret' = [Ret("gatherFrom", "array", 0, 0, "", "", <<>>)
                EXCEPT !.labels = ObjectKeys(g.ctx), !.seed = seed, !.skip = skip,
                       !.ran = g.ran, !.before = context]
    /\ UNCHANGED <<objs, insts, all, templates, inner, listeners, hooks, gatherers, components, frames, statics, subtext, hist>>

\* labels = ContextModule.gatherFrom(...); ContextModule.pop(labels)
PopGathered ==
  /\ ret.op = "gatherFrom"
  /\ \E r \in {ContextPop(context, ret.labels, 0)} :
       /\ context' = r.ctx
       /\ ret' = [ret EXCEPT !.op = "pop",
                             !.out = IF r.thrown = "none" THEN "number" ELSE r.thrown,
                             !.count = r.count]
  /\ UNCHANGED <<objs, insts, all, templates, inner, listeners, hooks, gatherers, components, frames, statics, subtext, hist>>

\* --------------------------------------------------------- specifications
\* Registry and template registry: identities.
RegistryLists == {<<>>, <<"Tangible">>}
Next ==
  \/ \E id \in UserIds, comps \in RegistryLists, register \in BOOLEAN :
       Construct(id, <<>>, comps, register)
  \/ \E name \in TemplateNames, h \in 1..MaxObjects : TemplateRegister(name, h)
  \/ \E name \in TemplateNames : Instantiate(name)
  \/ \E h \in 1..MaxObjects : Deserialize(h)

Spec == Init /\ [][Next]_vars

\* Composition: dependency chains and repeated attachment.
ComposeLists == {<<"Stateful">>, <<"Tangible">>}
ComposeTypes == {"Combatant"}
NextCompose ==
  \/ \E comps \in ComposeLists : Construct(<<"rock">>, <<>>, comps, TRUE)
  \/ \E h \in 1..MaxObjects, form \in ArgForms, T \in ComposeTypes :
       AddComponent(h, <<form, T>>)
  \/ \E h \in 1..MaxObjects : TemplateRegister("rock", h)
  \/ Instantiate("rock")

SpecCompose == Init /\ [][NextCompose]_vars

\* Component state and the serialization round trip.
DataLists == {<<"Stateful">>, <<"Perceptible">>}
NextData ==
  \/ \E comps \in DataLists, register \in BOOLEAN :
       Construct(<<"rock">>, <<>>, comps, register)
  \/ \E h \in 1..MaxObjects, t \in TagInputs : Tag(h, t)
  \/ \E h \in 1..MaxObjects, t \in TagInputs : Untag(h, t)
  \/ \E h \in 1..MaxObjects, var \in StateVariables, val \in StateValues :
       StatefulCreate(h, var, val)
  \/ \E h \in 1..MaxObjects, var \in StateVariables, val \in StateValues :
       StatefulSet(h, var, val)
  \/ \E h \in 1..MaxObjects, key \in StringKeys, val \in StringValues :
       StringfulSet(h, key, val)
  \/ \E h \in 1..MaxObjects, ctx \in PerceptionContexts, val \in PerceptionValues :
       SetPerception(h, ctx, val)
  \/ \E h \in 1..MaxObjects : Deserialize(h)

SpecData == Init /\ [][NextData]_vars

\* Template snapshots and the entities instantiated from them.
NextSnapshot ==
  \/ \E comps \in DataLists : Construct(<<"rock">>, <<>>, comps, TRUE)
  \/ \E h \in 1..MaxObjects, t \in TagInputs : Tag(h, t)
  \/ \E h \in 1..MaxObjects, var \in StateVariables, val \in StateValues :
       StatefulCreate(h, var, val)
  \/ \E h \in 1..MaxObjects, var \in StateVariables, val \in StateValues :
       StatefulSet(h, var, val)
  \/ \E h \in 1..MaxObjects, ctx \in PerceptionContexts, val \in PerceptionValues :
       SetPerception(h, ctx, val)
  \/ \E h \in 1..MaxObjects : TemplateRegister("rock", h)
  \/ Instantiate("rock")

SpecSnapshot == Init /\ [][NextSnapshot]_vars

\* The event bus.
NextEvents ==
  \/ \E pattern \in Patterns \cup EventNames, callback \in Callbacks,
        owner \in Owners, once \in BOOLEAN : On(pattern, callback, owner, once)
  \/ \E pattern \in Patterns \cup EventNames, callback \in Callbacks,
        owner \in Owners, once \in BOOLEAN : Off(pattern, callback, owner, once)
  \/ \E event \in EventNames : Emit(event)
  \/ \E owner \in Owners : RemoveAllBy(owner)
  \/ \E prefix \in PropertyPrefixes, property \in PropertyNames,
        previous \in PropertyValues, current \in PropertyValues :
       EmitPropertyEvents(prefix, property, previous, current)

SpecEvents == Init /\ [][NextEvents]_vars

\* The hook bus.
NextHookBus ==
  \/ \E hook \in HookNames, callback \in Callbacks : HookAttach(hook, callback)
  \/ \E hook \in HookNames : HookRun(hook)

SpecHookBus == Init /\ [][NextHookBus]_vars

\* Hooks around the mutating operations of an entity.
NextHooks ==
  \/ Construct(<<"rock">>, <<>>, <<"Tangible">>, TRUE)
  \/ \E h \in 1..MaxObjects, T \in ComposeTypes : AddComponent(h, <<"class", T>>)
  \/ \E h \in 1..MaxObjects, t \in TagInputs : Tag(h, t)
  \/ \E h \in 1..MaxObjects, t \in TagInputs : Untag(h, t)
  \/ \E h \in 1..MaxObjects : TemplateRegister("rock", h)
  \/ Instantiate("rock")

SpecHooks == Init /\ [][NextHooks]_vars

\* The context stacks.
NextContext ==
  \/ \E objects \in PushInputs : Push(objects)
  \/ \E labels \in PopInputs : Pop(labels)
  \/ \E label \in Labels : Get(label)

SpecContext == Init /\ [][NextContext]_vars

\* The three registries.
NextRegistry ==
  \/ \E id \in UserIds, register \in BOOLEAN : Construct(id, <<>>, <<>>, register)
  \/ \E id \in RegisterIds, h \in 1..MaxObjects : Register(id, h)
  \/ \E h \in 1..MaxObjects : TemplateRegister("rock", h)
  \/ Instantiate("rock")
  \/ \E r \in ComponentRegistrations : RegisterComponent(r[1], r[2])

SpecRegistry == Init /\ [][NextRegistry]_vars

\* Base ids of entities and template instances.
NextBase ==
  \/ \E id \in UserIds, register \in BOOLEAN : Construct(id, <<>>, <<>>, register)
  \/ \E h \in 1..MaxObjects : TemplateRegister("rock", h)
  \/ Instantiate("rock")
  \/ \E baseID \in UserIds : GetAllByBaseID(baseID)

SpecBase == Init /\ [][NextBase]_vars

\* Queries on entities.
QueryLists == {<<>>, <<"Tangible">>}
NextQuery ==
  \/ \E id \in ResolveIds, comps \in QueryLists, register \in BOOLEAN :
       Construct(id, <<>>, comps, register)
  \/ \E h \in 1..MaxObjects, arg \in QueryArgs : HasComponentCall(h, arg)
  \/ \E h \in 1..MaxObjects, arg \in QueryArgs : ComponentCall(h, arg)
  \/ \E given \in {<<"instance", h>> : h \in 1..MaxObjects}
                    \cup {<<"string", id>> : id \in ResolveIds} \cup {<<"other">>},
        proto \in ProtoInputs, comps \in ComponentsInputs, component \in ComponentInputs :
       Resolve(given, proto, comps, component)

SpecQuery == Init /\ [][NextQuery]_vars

\* Tags.
TagNames == {"HEAVY", "WET"}
TagLists == {<<>>, <<"HEAVY">>}
NextTags ==
  \/ \E id \in ResolveIds, tags \in TagLists : Construct(id, tags, <<>>, TRUE)
  \/ \E h \in 1..MaxObjects, t \in TagNames : Tag(h, t)
  \/ \E h \in 1..MaxObjects, t \in TagNames : Untag(h, t)
  \/ \E h \in 1..MaxObjects, t \in TagNames : IsTagged(h, t)

SpecTags == Init /\ [][NextTags]_vars

\* Instantiation re-entered from a component deserializer.
NextReentry ==
  \/ frames = <<>> /\ \E tags \in TagLists, register \in BOOLEAN :
                         Construct(<<"rock">>, tags, <<"Stateful">>, register)
  \/ frames = <<>> /\ \E h \in 1..MaxObjects : TemplateRegister("rock", h)
  \/ InstantiateCall("rock")
  \/ InstantiateReturn

SpecReentry == Init /\ [][NextReentry]_vars

\* Instances of templates that carry string data.
InstanceLists == {<<"Stringful">>, <<"Perceptible">>}
NextInstance ==
  \/ \E comps \in InstanceLists : Construct(<<"rock">>, <<>>, comps, FALSE)
  \/ \E h \in 1..MaxObjects, key \in StringKeys, val \in StringValues :
       StringfulSet(h, key, val)
  \/ \E h \in 1..MaxObjects : TemplateRegister("rock", h)
  \/ Instantiate("rock")

SpecInstance == Init /\ [][NextInstance]_vars

\* Context gathering.
NextGather ==
  \/ \E name \in GathererNames, gatherer \in GathererInputs : RegisterGatherer(name, gatherer)
  \/ \E seed \in Seeds, skip \in SkipInputs : GatherFrom(seed, skip)
  \/ PopGathered
  \/ \E objects \in PushInputs : Push(objects)
  \/ \E labels \in PopInputs : Pop(labels)

SpecGather == Init /\ [][NextGather]_vars

C10_WildcardDelivery ==
  ret.op = "emit" =>
    LET RECURSIVE Matches(_, _)
        Matches(P, E) ==
          IF P = <<>> THEN E = <<>>
          ELSE IF Head(P) = "**"
          THEN \E k \in 0..Len(E) : Matches(Tail(P), SubSeq(E, k + 1, Len(E)))
          ELSE /\ E # <<>>
               /\ (Head(P) = "*" \/ Head(P) = Head(E))
               /\ Matches(Tail(P), Tail(E))
    IN \A P \in hist.listened :
         (\E l \in Range(ret.invoked) : l.event = Text(P)) <=> Matches(P, ret.event)

\* C11: every on(P, cb, opts) returns normally, and an emit(P) of the same
\* literal name that follows it invokes cb with opts.owner.
C11_OnRegisters ==
  /\ [](ret.op = "on" => ret.out = "undefined")
  /\ [][(ret.op = "on" /\ ret'.op = "emit" /\ ret'.event = ret.event) =>
          \E l \in Range(ret'.invoked) :
             l.callback = ret.callback /\ l.owner = ret.owner]_vars

\* C12: the emit that follows the registration of a once-listener under the
\* same name invokes it exactly once, runs to its end, and leaves the
\* listener out of the registry; no once-listener is invoked by two emits.
C12_OnceFiresOnce ==
  /\ [][(ret.op = "on" /\ ret.once /\ ret'.op = "emit" /\ ret'.event = ret.event) =>
          /\ ret'.out = "undefined"
          /\ Cardinality({k \in 1..Len(ret'.invoked) :
                            /\ ret'.invoked[k].callback = ret.callback
                            /\ ret'.invoked[k].once}) = 1
          /\ \A e \in 1..Len(listeners') : \A l \in Range(listeners'[e][2]) :
                ~(l.once /\ l.callback = ret.callback
                         /\ l.event = Text(ret.event))]_vars
  /\ [][(ret.op = "emit" /\ ret'.op = "emit") =>
          \A l \in Range(ret.invoked) : l.once => l \notin Range(ret'.invoked)]_vars

\* C15: off(P, cb, opts) returns the number of listeners it removed, removes
\* from the set stored under the literal P exactly the listeners whose
\* callback is cb (and whose owner / once flag are the given ones), and
\* leaves every other entry of the registry as it was.
C15_OffExact ==
  [][ret'.op = "off" =>
       LET P == Text(ret'.event)
           stored == IF OHas(listeners, P) THEN OVal(listeners, P) ELSE <<>>
           gone == SelectSeq(stored, LAMBDA l :
                     /\ l.callback = ret'.callback
                     /\ (ret'.owner # "none" => l.owner = ret'.owner)
                     /\ (ret'.once => l.once))
       IN /\ ret'.out = "number"
          /\ ret'.count = Len(gone)
          /\ OKeys(listeners') = OKeys(listeners)
          /\ \A k \in 1..Len(listeners) :
                listeners'[k] =
                  IF listeners[k][1] = P
                  THEN <<P, SelectSeq(stored, LAMBDA l : l \notin Range(gone))>>
                  ELSE listeners[k]]_vars

\* C14: emitPropertyEvents emits, in this order, '.set'; '.changed' when
\* previous !== current and '.changed.not' otherwise; for two numbers only,
\* '.increased' when current > previous or '.decreased' when current <
\* previous; for two booleans only, '.toggled' when they differ and
\* '.toggled.not' otherwise.
C14_PropertyEvents ==
  ret.op = "emitPropertyEvents" =>
    LET previous == ret.value[1]
        current == ret.value[2]
        numbers == previous.t = "number" /\ current.t = "number"
        booleans == previous.t = "boolean" /\ current.t = "boolean"
        expected ==
          <<"set">>
          \o (IF previous # current THEN <<"changed">> ELSE <<"changed.not">>)
          \o (IF numbers /\ current.v > previous.v THEN <<"increased">>
              ELSE IF numbers /\ current.v < previous.v THEN <<"decreased">>
              ELSE <<>>)
          \o (IF booleans
              THEN (IF previous # current THEN <<"toggled">> ELSE <<"toggled.not">>)
              ELSE <<>>)
    IN /\ Len(ret.emitted) = Len(expected)
       /\ \A k \in 1..Len(expected) : ret.emitted[k][3] = expected[k]

\* C19: each label is a LIFO stack.  push puts its value in front of the
\* label's stack and pop takes the front value away, neither touching the
\* stack of a label it was not given; get returns the front value, and
\* undefined for a label whose values have all been popped (no empty stack
\* is kept).
C19_LabelStacks ==
  /\ [](\A k \in 1..Len(context) : context[k][2] # <<>>)
  /\ [][ret'.op = "push" =>
          LET Stack(c, l) == IF OHas(c, l) THEN OVal(c, l) ELSE <<>>
          IN \A l \in Labels :
                Stack(context', l) =
                  (IF \E k \in 1..Len(ret'.labels) : ret'.labels[k][1] = l
                   THEN <<ret'.labels[CHOOSE k \in 1..Len(ret'.labels) :
                                        ret'.labels[k][1] = l][2]>>
                   ELSE <<>>)
                  \o Stack(context, l)]_vars
  /\ [][ret'.op = "pop" =>
          LET Stack(c, l) == IF OHas(c, l) THEN OVal(c, l) ELSE <<>>
              Times(ls, l) == Cardinality({k \in 1..Len(ls) : ls[k] = l})
          IN \A l \in Labels :
                IF ret'.out = "number"
                THEN /\ Len(Stack(context, l)) >= Times(ret'.labels, l)
                     /\ Stack(context', l) =
                          SubSeq(Stack(context, l), Times(ret'.labels, l) + 1,
                                 Len(Stack(context, l)))
                ELSE Times(ret'.labels, l) = 0 =>
                       Stack(context', l) = Stack(context, l)]_vars
  /\ [][ret'.op = "get" =>
          LET Stack(c, l) == IF OHas(c, l) THEN OVal(c, l) ELSE <<>>
          IN /\ context' = context
             /\ ret'.value =
                  IF Stack(context, ret'.labels[1]) = <<>> THEN "undefined"
                  ELSE Stack(context, ret'.labels[1])[1]]_vars

\* get answered from a stack two values deep
C19_Witness ==
  /\ ret.op = "get"
  /\ OHas(context, ret.labels[1])
  /\ Len(OVal(context, ret.labels[1])) = 2
  /\ ret.value = OVal(context, ret.labels[1])[1]
  /\ ret.value # OVal(context, ret.labels[1])[2]

\* C20: pop(labels) never throws; it returns the number of labels that had
\* no stack at their turn, leaves the context as it was for those, and pops
\* the front value of every other label of the list.
C20_PopCountsFailures ==
  [][ret'.op = "pop" =>
       LET Stack(c, l) == IF OHas(c, l) THEN OVal(c, l) ELSE <<>>
           Popped(c, l) == IF Len(OVal(c, l)) <= 1 THEN ODelete(c, l)
                           ELSE OSet(c, l, Tail(OVal(c, l)))
           RECURSIVE After(_, _)
           After(c, ls) == IF ls = <<>> THEN c
                           ELSE IF OHas(c, Head(ls)) THEN After(Popped(c, Head(ls)), Tail(ls))
                           ELSE After(c, Tail(ls))
           RECURSIVE Failures(_, _)
           Failures(c, ls) == IF ls = <<>> THEN 0
                              ELSE IF OHas(c, Head(ls))
                              THEN Failures(Popped(c, Head(ls)), Tail(ls))
                              ELSE 1 + Failures(c, Tail(ls))
       IN /\ ret'.out = "number"
          /\ ret'.count = Failures(context, ret'.labels)
          /\ \A l \in Labels :
                Stack(context', l) = Stack(After(context, ret'.labels), l)]_vars

\* C17: every attach(h, cb) returns normally, and a run(h, ...) that follows
\* it invokes cb exactly once; run(h, ...) invokes nothing but the callbacks
\* held under h.
C17_AttachRegisters ==
  /\ [](ret.op = "attach" => ret.out = "undefined")
  /\ [][(ret.op = "attach" /\ ret'.op = "run" /\ ret'.name = ret.name) =>
          Cardinality({k \in 1..Len(ret'.invoked) : ret'.invoked[k] = ret.callback}) = 1]_vars
  /\ [][ret'.op = "run" =>
          ret'.invoked = IF OHas(hooks, ret'.name) THEN OVal(hooks, ret'.name) ELSE <<>>]_vars

C21_GatherSymmetric ==
  LET Stack(ctx, l) == IF OHas(ctx, l) THEN OVal(ctx, l) ELSE <<>>
      Runs == {n \in OKeys(gatherers) :
                 /\ ret.seed \in OVal(gatherers, n).applies
                 /\ n \notin Range(ret.skip)}
      Yielded == UNION {OKeys(OVal(gatherers, n).yields) : n \in Runs}
  IN /\ ret.op = "gatherFrom" =>
          /\ Range(ret.ran) = Runs
          /\ Len(ret.ran) = Cardinality(Runs)
          /\ Range(ret.labels) = Yielded
          /\ Len(ret.labels) = Cardinality(Yielded)
          /\ \A l \in Labels :
                /\ l \in Yielded => Len(Stack(context, l)) = Len(Stack(ret.before, l)) + 1
                /\ l \in Yielded => Tail(Stack(context, l)) = Stack(ret.before, l)
                /\ l \in Yielded =>
                      \E n \in Runs : <<l, Head(Stack(context, l))>> \in
                                          Range(OVal(gatherers, n).yields)
                /\ l \notin Yielded => Stack(context, l) = Stack(ret.before, l)
     /\ (ret.op = "pop" /\ ret.seed # "") =>
          /\ ret.out = "number"
          /\ ret.count = 0
          /\ \A l \in Labels : Stack(context, l) = Stack(ret.before, l)

C21_Witness ==
  /\ ret.op = "pop" /\ ret.seed # ""
  /\ ret.skip # <<>>
  /\ ret.ran # <<>>
  /\ Len(ret.ran) < Len(gatherers)
  /\ Len(ret.labels) = 2
  /\ ret.before # <<>>
C26_UnknownTemplate ==
  [][(ret'.op = "instantiate" /\ ret'.name \notin OKeys(templates)) =>
       /\ ret'.out = "null"
       /\ objs' = objs /\ all' = all
       /\ templates' = templates
       /\ inner' = inner]_vars
C31_RunInvokesAttached ==
  ret.op = "run" =>
    /\ {ret.invoked[k] : k \in 1..Len(ret.invoked)}
         = {p[2] : p \in {q \in hist.attached : q[1] = ret.name}}
    /\ \A i, j \in 1..Len(ret.invoked) : ret.invoked[i] = ret.invoked[j] => i = j
LiveLists == {<<>>, <<"Stateful">>}
LiveTypes == {"Stateful", "Tangible"}
NextLive ==
  \/ \E id \in UserIds, comps \in LiveLists : Construct(id, <<>>, comps, TRUE)
  \/ \E h \in 1..MaxObjects, T \in LiveTypes : AddComponent(h, <<"class", T>>)
  \/ \E h \in 1..MaxObjects, i \in 1..(2 * MaxObjects) : AddComponentLive(h, i)
SpecLive == Init /\ [][NextLive]_vars

DeclaredTypes == CycleTypes \cup {"Tangible", "Actionable"}
NextDeclared ==
  \/ \E id \in UserIds : Construct(id, <<>>, <<>>, TRUE)
  \/ \E h \in 1..MaxObjects, T \in DeclaredTypes : AddComponentDeclared(h, T)
SpecDeclared == Init /\ [][NextDeclared]_vars

ContainKinds ==
  {<<<<"rock">>, <<"Tangible">>>>, <<<<"box">>, <<"Containing">>>>,
   <<<<"bag">>, <<"Containing">>>>}
NextContain ==
  \/ \E k \in ContainKinds : Construct(k[1], <<>>, k[2], TRUE)
  \/ \E x, c \in 1..MaxObjects : MoveTo(x, c)
  \/ \E x \in 1..MaxObjects : RemoveFromWorld(x)
  \/ \E x, c \in 1..MaxObjects : ContainerAdd(c, x)
  \/ \E x, c \in 1..MaxObjects : ContainerRemove(c, x)
  \/ \E c \in 1..MaxObjects, f \in Filters : SetFilter(c, f)
SpecContain == Init /\ [][NextContain]_vars

ActionKinds == {"Actionable", "Agentive"}
ActionNames == {"take"}
NextActions ==
  \/ \E k \in ActionKinds : Construct(<<"rock">>, <<>>, <<k>>, FALSE)
  \/ \E k \in ActionKinds, a \in ActionNames : RegisterAction(k, a)
  \/ \E k \in ActionKinds, a \in ActionNames : Disable(k, a)
  \/ \E k \in ActionKinds, a \in ActionNames : Enable(k, a)
  \/ \E h \in 1..MaxObjects, k \in ActionKinds, a \in ActionNames : AgentsCan(h, k, a)
SpecActions == Init /\ [][NextActions]_vars

\* C39: system-wide disabling is reversible: for a registered action
\* disable returns true and hides it from every object, and a following
\* enable returns true, after which isAction is true again and every object
\* that was granted the action reports it again (likewise for acts).
C39_DisableReversible ==
  [][LET w2 == World(objs', insts', all')
         kind == ret'.T
         a == ret'.name
         disabling == /\ ret'.op = "disable"
                      /\ a \in statics[kind].all
                      /\ a \notin statics[kind].disabled
         enabling == /\ ret'.op = "enable"
                     /\ ret.op = "disable"
                     /\ ret.out = "true"
                     /\ a = ret.name
                     /\ kind = ret.T
         hidden == \A h \in 1..Len(objs') :
                      HasComponent(w2, h, kind) => a \notin VisibleActions(w2, statics', h, kind)
         shown == \A h \in 1..Len(objs') :
                     (/\ HasComponent(w2, h, kind)
                      /\ a \in Range(insts'[OVal(objs'[h].comps, kind)].data))
                        => a \in VisibleActions(w2, statics', h, kind)
     IN /\ disabling => (ret'.out = "true" /\ hidden)
        /\ enabling => (ret'.out = "true" /\ IsAction(statics', kind, a, TRUE) /\ shown)]_vars
\* Conditionals and substitutions registered as in the tests, and strings
\* parsed that name registered and unregistered identifiers.
ConditionalInputs == {<<"alwaysTrue", TRUE>>, <<"alwaysFalse", FALSE>>}
SubstitutionInputs == {<<"greeting", "Hello">>}
ParseInputs ==
  {<<TextPart("Say:"), SpacePart, SubPart("greeting"), TextPart("!")>>,
   <<CondPart("alwaysTrue", "Yes", "No")>>,
   <<CondPart("alwaysFalse", "Yes", "No")>>,
   <<CondPart("alwaysTrue", "Yes", "No"), SpacePart, SubPart("greeting")>>}
ParseStep == ParseOuter \/ ParseInnerConditionals \/ ParseInnerSubstitutions
NextSubText ==
  \/ \E c \in ConditionalInputs : RegisterConditional(c[1], c[2])
  \/ \E c \in SubstitutionInputs : RegisterSubstitution(c[1], c[2])
  \/ \E string \in ParseInputs : ParseCall(string)
  \/ ParseOuter
  \/ ParseInnerConditionals
  \/ ParseInnerSubstitutions
SpecSubText == Init /\ [][NextSubText]_vars
\* a parse call that was entered keeps running: the engine runs the
\* statements of the call one after the other
SpecSubTextLive == SpecSubText /\ WF_vars(ParseStep)

\* C40: SubTextModule.parse(string) terminates and returns a string for
\* every input, also when a conditional or a substitution names an
\* identifier that is not registered.
C40_ParseTerminates == (subtext.pc # "idle") ~> (subtext.pc = "idle")
====
